---- MODULE Spec2Model ----
(***************************************************************************)
(* Model of the ONNX model loader (app/lib/onnx-loader.ts), of the         *)
(* useModelLoader hook that owns the active model session, and of the      *)
(* detection pipeline: runInference and parseYoloOutput                    *)
(* (app/lib/inference.ts) and applyNMS (app/lib/nms.ts).                   *)
(*                                                                         *)
(* Every asynchronous function is cut at its awaits: one action runs the   *)
(* code from one await to the next, as the JavaScript event loop does.     *)
(***************************************************************************)
EXTENDS Integers, Sequences, FiniteSets, TLC

VARIABLES
    isInitialized,  \* onnx-loader.ts: module-level flag
    env,            \* ort.env settings written by initializeOnnxEnv
    nodeEnv,        \* process.env.NODE_ENV
    browser,        \* what detectBrowserCapabilities finds in this browser
    envWrites,      \* history: how many calls wrote the settings
    directInits,    \* history: direct initializeOnnxEnv() calls made
    loads,          \* loadModel invocations, in call order
    rels,           \* releaseModel invocations, in call order
    sessions,       \* ort.InferenceSession objects created, in creation order
    state,          \* useModelLoader: the reducer state the hook exposes
    sessionRef,     \* useModelLoader: sessionRef.current (0 is null)
    mounted,        \* useModelLoader: the component is mounted
    ops,            \* useModelLoader: loadModel/switchModel/unloadModel calls
    parse,          \* inference.ts: one parseYoloOutput call, arguments and outcome
    frame,          \* inference.ts: the runInference call of the current frame
    modelSession,   \* inference.ts: the ModelSession runInference is given
    nms,            \* nms.ts: one applyNMS call, arguments and result
    iou,            \* nms.ts: one calculateIoU call, arguments and result
    post,           \* postprocess.ts: one call of a postprocessing function
    cv,             \* opencv-loader.ts: cvInstance, cvPromise and the getOpenCV calls
    pre             \* preprocess.ts: one preprocessImage call and its Mats

vars == <<isInitialized, env, nodeEnv, browser, envWrites, directInits, loads, rels,
          sessions, state, sessionRef, mounted, ops, parse, frame, modelSession, nms,
          iou, post, cv, pre>>

loaderVars == <<isInitialized, env, nodeEnv, browser, envWrites, directInits, loads,
                rels, sessions>>
hookVars == <<state, sessionRef, mounted, ops>>
stageVars == <<iou, post, cv, pre>>
pipelineVars == <<parse, frame, modelSession, nms, stageVars>>

----------------------------------------------------------------------------
(* Bounds of the model *)

MaxCalls == 3       \* direct calls of the loader's functions
MaxPending == 1     \* direct loadModel calls in flight at once
MaxOps == 2         \* hook operations

----------------------------------------------------------------------------
(* Types (app/lib/types/model.ts) *)

ExecutionProvider == {"webgpu", "wasm", "cpu"}
NoProvider == "none"        \* an absent optional provider / null

BrowserCapabilities ==
    [webgpu : BOOLEAN, wasm : BOOLEAN, simd : BOOLEAN, threads : BOOLEAN]
NoCapabilities ==
    [webgpu |-> FALSE, wasm |-> FALSE, simd |-> FALSE, threads |-> FALSE]

----------------------------------------------------------------------------
(* initializeOnnxEnv *)

DistPath == "/node_modules/onnxruntime-web/dist/"

\* The settings before the loader touches them: the library's defaults, or
\* whatever the embedding page configured.
InitialEnvs ==
    { [wasmPaths |-> "", numThreads |-> 1, simd |-> FALSE, proxy |-> FALSE,
       logLevel |-> "default"],
      [wasmPaths |-> DistPath, numThreads |-> 4, simd |-> TRUE, proxy |-> TRUE,
       logLevel |-> "verbose"] }

ConfiguredEnv(e) ==
    [e EXCEPT !.wasmPaths = DistPath,
              !.numThreads = 4,
              !.simd = TRUE,
              !.proxy = FALSE,
              !.logLevel = IF nodeEnv = "development" THEN "warning" ELSE @]

\* A buggy variant: the guard on isInitialized is missing.
initializeOnnxEnvUnguarded(init, e) ==
    [isInitialized |-> TRUE, env |-> ConfiguredEnv(e), wrote |-> TRUE]

initializeOnnxEnv(init, e) ==
    IF init
    THEN [isInitialized |-> init, env |-> e, wrote |-> FALSE]
    ELSE [isInitialized |-> TRUE, env |-> ConfiguredEnv(e), wrote |-> TRUE]

\* The effect of one initializeOnnxEnv() call on the process-wide state.
RunInitializeOnnxEnv ==
    LET r == initializeOnnxEnv(isInitialized, env) IN
    /\ isInitialized' = r.isInitialized
    /\ env' = r.env
    /\ envWrites' = envWrites + (IF r.wrote THEN 1 ELSE 0)

----------------------------------------------------------------------------
(* selectExecutionProvider, createSessionOptions *)

\* The capability summary: the flags the probes of this browser resolve to.
detectBrowserCapabilities == browser

selectExecutionProvider(capabilities) ==
    IF capabilities.webgpu THEN "webgpu"
    ELSE IF capabilities.wasm /\ capabilities.simd /\ capabilities.threads
         THEN "wasm"
         ELSE "cpu"

createSessionOptions(provider) ==
    [executionProviders |->
        IF provider = "webgpu" THEN "webgpu"
        ELSE IF provider = "wasm" THEN "wasm"
        ELSE "cpu",
     preferredLayout |-> IF provider = "webgpu" THEN "NCHW" ELSE "none"]

fallbackChain == <<"webgpu", "wasm", "cpu">>

\* Array.prototype.indexOf, 0-based, -1 when absent.
IndexOf(seq, x) ==
    IF \E i \in 1..Len(seq) : seq[i] = x
    THEN (CHOOSE i \in 1..Len(seq) : seq[i] = x /\ \A j \in 1..(i-1) : seq[j] # x) - 1
    ELSE -1

\* Array.prototype.slice(start), start 0-based, negative counts from the end.
Slice(seq, start) ==
    LET n == Len(seq)
        s == IF start < 0 THEN (IF n + start < 0 THEN 0 ELSE n + start)
             ELSE (IF start > n THEN n ELSE start)
    IN SubSeq(seq, s + 1, n)

providersToTry(targetProvider) ==
    Slice(fallbackChain, IndexOf(fallbackChain, targetProvider))

----------------------------------------------------------------------------
(* loadModel *)

NoSession == 0
NoError == <<>>
\* null where a ModelSession is expected
NullModelSession == [session |-> NoSession, executionProvider |-> NoProvider]
NoResult == [session |-> NullModelSession, loadTimeMs |-> "null",
             executionProvider |-> NoProvider]

\* The rejection of ort.InferenceSession.create for one provider.
SessionCreateError(provider) == <<"create failed", provider>>

\* One iteration of the for loop up to its await: the options are built and
\* InferenceSession.create is called with them.
Attempt(provider, init, e) ==
    [provider |-> provider,
     options |-> createSessionOptions(provider),
     outcome |-> "pending",
     error |-> NoError,
     envReady |-> init /\ e = ConfiguredEnv(e)]

\* A buggy variant: the result keeps the first candidate.
ActualProviderStale(targetProvider, provider) == targetProvider

\* actualProvider after a successful attempt (line 100).
ActualProvider(targetProvider, provider) == provider

\* A buggy variant: the catch block never throws, the loop just runs out.
CatchThrowsNever(provider) == FALSE

\* The catch block rethrows when the failing provider is the last of the chain.
CatchThrows(provider) == provider = "cpu"

ModelLoadFailed(error) == [kind |-> "ModelLoadFailed", cause |-> error]
NoSessionCreated == [kind |-> "NoSessionCreated", cause |-> NoError]
NoFailure == [kind |-> "none", cause |-> NoError]

LastAttempt(load) == load.attempts[Len(load.attempts)]

\* loadModel from its call to its first await. With a preferred provider the
\* first await is the first InferenceSession.create; without one it is
\* selectExecutionProvider's detectBrowserCapabilities.
LoadModelCall(owner, preferredProvider) ==
    LET r == initializeOnnxEnv(isInitialized, env)
        first == providersToTry(preferredProvider)[1]
    IN
    /\ RunInitializeOnnxEnv
    /\ loads' = Append(loads,
         [owner |-> owner,
          preferred |-> preferredProvider,
          capabilities |-> NoCapabilities,
          targetProvider |-> preferredProvider,
          pc |-> IF preferredProvider = NoProvider THEN "detecting" ELSE "creating",
          attempts |-> IF preferredProvider = NoProvider THEN <<>>
                       ELSE <<Attempt(first, r.isInitialized, r.env)>>,
          result |-> NoResult,
          error |-> NoFailure,
          pre |-> [isInitialized |-> isInitialized, env |-> env]])

\* selectExecutionProvider resolves; the loop starts with its first candidate.
LoadDetected(l) ==
    /\ loads[l].pc = "detecting"
    /\ LET capabilities == detectBrowserCapabilities
           target == selectExecutionProvider(capabilities)
           first == providersToTry(target)[1]
       IN loads' = [loads EXCEPT ![l] =
            [@ EXCEPT !.capabilities = capabilities,
                      !.targetProvider = target,
                      !.pc = "creating",
                      !.attempts = <<Attempt(first, isInitialized, env)>>]]
    /\ UNCHANGED <<isInitialized, env, nodeEnv, browser, pipelineVars, envWrites, directInits, rels,
                   sessions, hookVars>>

\* InferenceSession.create resolves: leave the loop and return the LoadResult.
CreateOk(l) ==
    /\ loads[l].pc = "creating"
    /\ LET a == LastAttempt(loads[l])
           n == Len(loads[l].attempts)
           id == Len(sessions) + 1
           actual == ActualProvider(loads[l].targetProvider, a.provider)
       IN /\ a.outcome = "pending"
          /\ sessions' = Append(sessions,
                [backend |-> a.options.executionProviders,
                 load |-> l,
                 released |-> 0])
          /\ loads' = [loads EXCEPT ![l] =
                [@ EXCEPT !.attempts[n].outcome = "ok",
                          !.pc = "resolved",
                          !.result =
                             [session |-> [session |-> id,
                                           executionProvider |-> actual],
                              loadTimeMs |-> "elapsed",
                              executionProvider |-> actual]]]
    /\ UNCHANGED <<isInitialized, env, nodeEnv, browser, pipelineVars, envWrites, directInits, rels,
                   hookVars>>

\* InferenceSession.create rejects: the catch block, then either the throw,
\* the next iteration up to its create call, or the end of the loop.
CreateFail(l) ==
    /\ loads[l].pc = "creating"
    /\ LET a == LastAttempt(loads[l])
           n == Len(loads[l].attempts)
           chain == providersToTry(loads[l].targetProvider)
           error == SessionCreateError(a.provider)
           failed == [loads[l] EXCEPT !.attempts[n].outcome = "failed",
                                      !.attempts[n].error = error]
       IN /\ a.outcome = "pending"
          /\ loads' = [loads EXCEPT ![l] =
                IF CatchThrows(a.provider)
                THEN [failed EXCEPT !.pc = "rejected",
                                    !.error = ModelLoadFailed(error)]
                ELSE IF n < Len(chain)
                THEN [failed EXCEPT !.attempts =
                        Append(@, Attempt(chain[n + 1], isInitialized, env))]
                ELSE [failed EXCEPT !.pc = "rejected",
                                    !.error = NoSessionCreated]]
    /\ UNCHANGED <<isInitialized, env, nodeEnv, browser, pipelineVars, envWrites, directInits, rels,
                   sessions, hookVars>>

\* What is left of an invocation once its caller has taken its outcome.
Returned(load) ==
    [owner |-> load.owner,
     preferred |-> NoProvider,
     capabilities |-> NoCapabilities,
     targetProvider |-> NoProvider,
     pc |-> "returned",
     attempts |-> <<>>,
     result |-> NoResult,
     error |-> NoFailure,
     pre |-> [isInitialized |-> TRUE, env |-> ConfiguredEnv(env)]]

Settled(load) == load.pc \in {"resolved", "rejected"}

----------------------------------------------------------------------------
(* releaseModel *)

\* A buggy variant: no try/catch around session.release().
ReleaseOutcomeUncaught(teardownOk) ==
    IF teardownOk THEN "resolved" ELSE "rejected"

\* How the promise of releaseModel settles once session.release() has.
ReleaseOutcome(teardownOk) == "resolved"

\* releaseModel from its call to its await: session.release() is issued.
ReleaseModelCall(owner, s) ==
    /\ rels' = Append(rels,
         [sess |-> s, owner |-> owner, pc |-> "pending", teardown |-> "pending",
          again |-> sessions[s].released > 0])
    /\ sessions' = [sessions EXCEPT ![s].released = @ + 1]

\* session.release() settles.
ReleaseSettled(r, teardownOk) ==
    /\ rels[r].pc = "pending"
    /\ rels' = [rels EXCEPT ![r].pc = ReleaseOutcome(teardownOk),
                            ![r].teardown = IF teardownOk THEN "ok" ELSE "failed"]
    /\ UNCHANGED <<isInitialized, env, nodeEnv, browser, pipelineVars, envWrites, directInits, loads,
                   sessions, hookVars>>

\* What is left of an invocation once its caller has taken its outcome.
ReturnedRelease(rel) == [rel EXCEPT !.teardown = "returned"]

TeardownOk(r) == ReleaseSettled(r, TRUE)
TeardownFail(r) == ReleaseSettled(r, FALSE)

----------------------------------------------------------------------------
(* Direct callers of the loader *)

\* How many direct calls of the loader's functions were made.
DirectCalls ==
    directInits
    + Cardinality({l \in 1..Len(loads) : loads[l].owner = 0})
    + Cardinality({r \in 1..Len(rels) : rels[r].owner = 0})

InitCall ==
    /\ DirectCalls < MaxCalls
    /\ directInits' = directInits + 1
    /\ RunInitializeOnnxEnv
    /\ UNCHANGED <<nodeEnv, browser, pipelineVars, loads, rels, sessions, hookVars>>

DirectPending ==
    Cardinality({l \in 1..Len(loads) :
                    loads[l].owner = 0 /\ loads[l].pc # "returned"})

DirectLoad(preferredProvider) ==
    /\ DirectCalls < MaxCalls
    /\ DirectPending < MaxPending
    /\ LoadModelCall(0, preferredProvider)
    /\ UNCHANGED <<nodeEnv, browser, pipelineVars, directInits, rels, sessions, hookVars>>

\* The caller's await of loadModel continues with the outcome.
DirectLoadReturn(l) ==
    /\ loads[l].owner = 0
    /\ Settled(loads[l])
    /\ loads' = [loads EXCEPT ![l] = Returned(@)]
    /\ UNCHANGED <<isInitialized, env, nodeEnv, browser, pipelineVars, envWrites, directInits,
                   rels, sessions, hookVars>>

\* A caller releases a session loadModel returned to it, possibly again.
DirectRelease(s) ==
    /\ DirectCalls < MaxCalls
    /\ loads[sessions[s].load].owner = 0
    /\ ReleaseModelCall(0, s)
    /\ UNCHANGED <<isInitialized, env, nodeEnv, browser, pipelineVars, envWrites, directInits, loads,
                   hookVars>>

----------------------------------------------------------------------------
(* useModelLoader *)

NoModelError == [message |-> NoFailure, provider |-> NoProvider]

InitialHookState ==
    [session |-> NullModelSession, loadingState |-> "idle",
     error |-> NoModelError, loadTimeMs |-> "null",
     executionProvider |-> NoProvider]

\* A buggy variant: LOAD_ERROR leaves the session in the state.
modelLoaderReducerKeepsSession(st, action) ==
    IF action.type = "LOAD_START"
    THEN [st EXCEPT !.loadingState = "loading", !.error = NoModelError]
    ELSE IF action.type = "LOAD_SUCCESS"
    THEN [session |-> action.payload.session,
          loadingState |-> "loaded",
          error |-> NoModelError,
          loadTimeMs |-> action.payload.loadTimeMs,
          executionProvider |-> action.payload.executionProvider]
    ELSE IF action.type = "LOAD_ERROR"
    THEN [st EXCEPT !.loadingState = "error", !.error = action.payload]
    ELSE IF action.type = "UNLOAD"
    THEN InitialHookState
    ELSE st

modelLoaderReducer(st, action) ==
    IF action.type = "LOAD_START"
    THEN [st EXCEPT !.loadingState = "loading", !.error = NoModelError]
    ELSE IF action.type = "LOAD_SUCCESS"
    THEN [session |-> action.payload.session,
          loadingState |-> "loaded",
          error |-> NoModelError,
          loadTimeMs |-> action.payload.loadTimeMs,
          executionProvider |-> action.payload.executionProvider]
    ELSE IF action.type = "LOAD_ERROR"
    THEN [session |-> NullModelSession,
          loadingState |-> "error",
          error |-> action.payload,
          loadTimeMs |-> "null",
          executionProvider |-> NoProvider]
    ELSE IF action.type = "UNLOAD"
    THEN InitialHookState
    ELSE st

\* React's dispatch: the reducer runs on the state of a mounted component; an
\* update of an unmounted one is dropped.
Dispatch(action) ==
    state' = IF mounted THEN modelLoaderReducer(state, action) ELSE state

NoPayload == [none |-> TRUE]

\* A new call of one of the hook's callbacks can be made.
CanCall ==
    /\ mounted
    /\ Len(ops) < MaxOps

NewOp(kind, pc, load, rel, held) ==
    [kind |-> kind, pc |-> pc, load |-> load, rel |-> rel, held |-> held]

\* loadModelFn from its call to its await of loadModel (lines 103-107).
LoadModelFnCall(o, provider) ==
    /\ Dispatch([type |-> "LOAD_START", payload |-> NoPayload])
    /\ LoadModelCall(o, provider)

\* The hook's loadModel callback is called.
HookLoadModel(provider) ==
    /\ CanCall
    /\ LoadModelFnCall(Len(ops) + 1, provider)
    /\ ops' = Append(ops, NewOp("loadModel", "awaitLoad", Len(loads) + 1, 0,
                                NullModelSession))
    /\ UNCHANGED <<nodeEnv, browser, pipelineVars, directInits, rels, sessions, sessionRef,
                   mounted>>

\* loadModelFn after its await: the catch block (lines 108-122) or the
\* success path (lines 124-132). A switchModel that awaits it ends with it.
LoadModelFnSettled(o) ==
    /\ ops[o].pc = "awaitLoad"
    /\ Settled(loads[ops[o].load])
    /\ LET load == loads[ops[o].load] IN
       IF load.pc = "rejected"
       THEN /\ sessionRef' = NullModelSession
            /\ Dispatch([type |-> "LOAD_ERROR",
                         payload |-> [message |-> load.error,
                                      provider |-> load.preferred]])
       ELSE /\ sessionRef' = load.result.session
            /\ Dispatch([type |-> "LOAD_SUCCESS",
                         payload |-> load.result])
    /\ ops' = [ops EXCEPT ![o].pc = "done"]
    /\ loads' = [loads EXCEPT ![ops[o].load] = Returned(@)]
    /\ UNCHANGED <<isInitialized, env, nodeEnv, browser, pipelineVars, envWrites,
                   directInits, rels, sessions, mounted>>

\* A buggy variant: the release is not awaited.
ReleaseAwaitedNot(rel) == TRUE

\* await releaseModel(...) continues once the promise has resolved.
ReleaseAwaited(rel) == rel.pc = "resolved"

\* switchModel is called (lines 138-144).
SwitchModel ==
    /\ CanCall
    /\ LET o == Len(ops) + 1 IN
       IF sessionRef # NullModelSession
       THEN /\ ReleaseModelCall(o, sessionRef.session)
            /\ ops' = Append(ops, NewOp("switchModel", "awaitRelease", 0,
                                        Len(rels) + 1, sessionRef))
            /\ UNCHANGED <<isInitialized, env, envWrites, loads, state>>
       ELSE /\ LoadModelFnCall(o, NoProvider)
            /\ ops' = Append(ops, NewOp("switchModel", "awaitLoad",
                                        Len(loads) + 1, 0, NullModelSession))
            /\ UNCHANGED <<rels, sessions>>
    /\ UNCHANGED <<nodeEnv, browser, pipelineVars, directInits, sessionRef, mounted>>

\* switchModel after its await of releaseModel (lines 141-144).
SwitchReleased(o) ==
    /\ ops[o].kind = "switchModel"
    /\ ops[o].pc = "awaitRelease"
    /\ ReleaseAwaited(rels[ops[o].rel])
    /\ sessionRef' = NullModelSession
    /\ LoadModelFnCall(o, NoProvider)
    /\ ops' = [ops EXCEPT ![o].pc = "awaitLoad", ![o].load = Len(loads) + 1]
    /\ rels' = [rels EXCEPT ![ops[o].rel] = ReturnedRelease(@)]
    /\ UNCHANGED <<nodeEnv, browser, pipelineVars, directInits, sessions, mounted>>

\* unloadModel is called (lines 149-151).
UnloadModel ==
    /\ CanCall
    /\ LET o == Len(ops) + 1 IN
       IF sessionRef # NullModelSession
       THEN /\ ReleaseModelCall(o, sessionRef.session)
            /\ ops' = Append(ops, NewOp("unloadModel", "awaitRelease", 0,
                                        Len(rels) + 1, sessionRef))
       ELSE /\ ops' = Append(ops, NewOp("unloadModel", "done", 0, 0,
                                        NullModelSession))
            /\ UNCHANGED <<rels, sessions>>
    /\ UNCHANGED <<isInitialized, env, nodeEnv, browser, pipelineVars, envWrites,
                   directInits, loads, state, sessionRef, mounted>>

\* unloadModel after its await of releaseModel (lines 152-153).
UnloadReleased(o) ==
    /\ ops[o].kind = "unloadModel"
    /\ ops[o].pc = "awaitRelease"
    /\ ReleaseAwaited(rels[ops[o].rel])
    /\ sessionRef' = NullModelSession
    /\ Dispatch([type |-> "UNLOAD", payload |-> NoPayload])
    /\ ops' = [ops EXCEPT ![o].pc = "done"]
    /\ rels' = [rels EXCEPT ![ops[o].rel] = ReturnedRelease(@)]
    /\ UNCHANGED <<isInitialized, env, nodeEnv, browser, pipelineVars, envWrites,
                   directInits, loads, sessions, mounted>>

UnmountOwner == -1

\* The component unmounts: the effect's cleanup runs (lines 158-162).
Unmount ==
    /\ mounted
    /\ mounted' = FALSE
    /\ IF sessionRef # NullModelSession
       THEN ReleaseModelCall(UnmountOwner, sessionRef.session)
       ELSE UNCHANGED <<rels, sessions>>
    /\ UNCHANGED <<isInitialized, env, nodeEnv, browser, pipelineVars, envWrites,
                   directInits, loads, state, sessionRef, ops>>

----------------------------------------------------------------------------
(* Raw-output decoder (app/lib/inference.ts)                               *)
(*                                                                         *)
(* A Float32Array is a sequence of integers: scores and thresholds are in  *)
(* hundredths, so 0.25 is 25.  JavaScript index k is sequence index k + 1. *)

MaxPredictions == 2     \* anchors (columns) of a raw output
NUM_CLASSES == 2        \* class-score rows of a raw output (80 in the source)

NUM_BBOX_COORDS == 4
IMAGE_SIZE == 640

\* The feature count parseYoloOutput demands: the literal 84 of line 136 is
\* NUM_BBOX_COORDS + NUM_CLASSES of the 80-class model.
NumFeatures == NUM_BBOX_COORDS + NUM_CLASSES

DEFAULT_CONFIG == [confidenceThreshold |-> 25]

At(outputData, k) == outputData[k + 1]

NormalizeThrows(dims) == Len(dims) # 3 /\ Len(dims) # 4

normalizeOutputShape(dims) ==
    IF Len(dims) = 3
    THEN [batchSize |-> dims[1], numFeatures |-> dims[2], numPredictions |-> dims[3]]
    ELSE [batchSize |-> dims[1], numFeatures |-> dims[3], numPredictions |-> dims[4]]

extractBoundingBox(outputData, predictionIndex, numPredictions) ==
    [cx     |-> At(outputData, 0 * numPredictions + predictionIndex),
     cy     |-> At(outputData, 1 * numPredictions + predictionIndex),
     width  |-> At(outputData, 2 * numPredictions + predictionIndex),
     height |-> At(outputData, 3 * numPredictions + predictionIndex)]

isValidBoundingBox(bbox) ==
    /\ bbox.width > 0
    /\ bbox.height > 0
    /\ bbox.cx >= 0
    /\ bbox.cy >= 0
    /\ bbox.cx <= IMAGE_SIZE
    /\ bbox.cy <= IMAGE_SIZE

\* A buggy variant: a later class with an equal score replaces the earlier one.
BetterScoreOrEqual(score, maxScore) == score >= maxScore

\* score > maxScore (line 106)
BetterScore(score, maxScore) == score > maxScore

\* The for loop of findBestClass from class classIdx on.
RECURSIVE findBestClassFrom(_, _, _, _, _, _)
findBestClassFrom(outputData, predictionIndex, numPredictions, classIdx, maxScore, maxClassId) ==
    IF classIdx >= NUM_CLASSES
    THEN [classId |-> maxClassId, confidence |-> maxScore]
    ELSE LET score == At(outputData,
                         (NUM_BBOX_COORDS + classIdx) * numPredictions + predictionIndex)
         IN  IF BetterScore(score, maxScore)
             THEN findBestClassFrom(outputData, predictionIndex, numPredictions,
                                    classIdx + 1, score, classIdx)
             ELSE findBestClassFrom(outputData, predictionIndex, numPredictions,
                                    classIdx + 1, maxScore, maxClassId)

findBestClass(outputData, predictionIndex, numPredictions) ==
    findBestClassFrom(outputData, predictionIndex, numPredictions, 0, 0, 0)

\* Buggy variants: a score equal to the threshold is dropped; the comparison
\* is the wrong way round.
PassesThresholdStrictly(confidence, confidenceThreshold) ==
    confidence > confidenceThreshold
PassesThresholdBelow(confidence, confidenceThreshold) ==
    confidence <= confidenceThreshold

\* confidence >= confidenceThreshold (line 151)
PassesThreshold(confidence, confidenceThreshold) ==
    confidence >= confidenceThreshold

\* The for loop of parseYoloOutput from anchor i on, appending to detections.
RECURSIVE parseFrom(_, _, _, _, _)
parseFrom(outputData, numPredictions, confidenceThreshold, i, detections) ==
    IF i >= numPredictions
    THEN detections
    ELSE LET bbox == extractBoundingBox(outputData, i, numPredictions)
             best == findBestClass(outputData, i, numPredictions)
         IN  IF ~isValidBoundingBox(bbox)
             THEN parseFrom(outputData, numPredictions, confidenceThreshold, i + 1,
                            detections)
             ELSE IF PassesThreshold(best.confidence, confidenceThreshold)
             THEN parseFrom(outputData, numPredictions, confidenceThreshold, i + 1,
                            Append(detections,
                                   [classId |-> best.classId,
                                    confidence |-> best.confidence,
                                    cx |-> bbox.cx, cy |-> bbox.cy,
                                    width |-> bbox.width, height |-> bbox.height]))
             ELSE parseFrom(outputData, numPredictions, confidenceThreshold, i + 1,
                            detections)

UnexpectedOutputShape == "[Inference] Unexpected output shape"
ExpectedFeatures == "[Inference] Expected 84 features"

Returns(value) == [threw |-> FALSE, error |-> "", value |-> value]
Throws(error) == [threw |-> TRUE, error |-> error, value |-> <<>>]

\* A buggy variant: extra feature rows are let through.
FeaturesAcceptedFrom(numFeatures) == numFeatures >= NumFeatures

\* numFeatures !== 84 throws (line 136)
FeaturesAccepted(numFeatures) == numFeatures = NumFeatures

parseYoloOutput(outputData, outputShape, confidenceThreshold) ==
    IF NormalizeThrows(outputShape)
    THEN Throws(UnexpectedOutputShape)
    ELSE LET shape == normalizeOutputShape(outputShape)
         IN  IF ~FeaturesAccepted(shape.numFeatures)
             THEN Throws(ExpectedFeatures)
             ELSE Returns(parseFrom(outputData, shape.numPredictions,
                                    confidenceThreshold, 0, <<>>))

\* Raw outputs the decoder is given.  A column is one anchor: its box rows and
\* its class-score rows.
\* Class scores are the probabilities the model puts out, between 0 and 1.
Scores == {0, 50}
Thresholds == {0, 50, 75}

\* <<cx, cy, width, height>>: two boxes on the edges of the image, then one
\* box for each way of failing isValidBoundingBox.
EdgeBoxes == {<<0, 640, 2, 4>>, <<640, 0, 6, 8>>}
Boxes ==
    EdgeBoxes \cup {<<-1, 320, 2, 4>>, <<320, -1, 2, 4>>, <<641, 320, 2, 4>>,
                    <<320, 641, 2, 4>>, <<320, 320, 0, 4>>, <<320, 320, 2, 0>>}

\* Outputs of up to two anchors take every box; longer ones the edge boxes and
\* one box left of the image.
BoxesOf(numPredictions) ==
    IF numPredictions < 3 THEN Boxes ELSE EdgeBoxes \cup {<<-1, 320, 2, 4>>}

Columns(numPredictions) ==
    [box : BoxesOf(numPredictions), scores : [0..(NUM_CLASSES - 1) -> Scores]]

\* The flat feature-major buffer of an output tensor of numFeatures rows:
\* element row * numPredictions + i is row `row` of anchor i.
RawOutput(cols, numFeatures, numPredictions) ==
    [k \in 1..(numFeatures * numPredictions) |->
        LET row == (k - 1) \div numPredictions
            i == (k - 1) % numPredictions
        IN  IF row < NUM_BBOX_COORDS THEN cols[i + 1].box[row + 1]
            ELSE IF row - NUM_BBOX_COORDS < NUM_CLASSES
                 THEN cols[i + 1].scores[row - NUM_BBOX_COORDS]
                 ELSE 0]

FeatureCounts == {NumFeatures - 1, NumFeatures, NumFeatures + 1}

\* Shapes of rank 3 and 4 with each feature count, and shapes of rank 2 and 5.
OutputShapes ==
    UNION {{<<1, f, n>>, <<1, 1, f, n>>} :
           <<f, n>> \in FeatureCounts \X (0..MaxPredictions)}
    \cup UNION {{<<NumFeatures, n>>, <<1, 1, 1, NumFeatures, n>>} :
                n \in 0..MaxPredictions}

RawOutputs(dims) ==
    LET numFeatures == dims[Len(dims) - 1]
        numPredictions == dims[Len(dims)]
    IN  {RawOutput(cols, numFeatures, numPredictions) :
         cols \in [1..numPredictions -> Columns(numPredictions)]}

NoOutcome == [threw |-> FALSE, error |-> "", value |-> <<>>]

NoParse ==
    [pc |-> "idle", outputShape |-> <<>>, confidenceThreshold |-> 0,
     outputData |-> <<>>, outcome |-> NoOutcome]

\* A caller has an output shape and a threshold in hand.
ParseCalls ==
    [pc : {"called"}, outputShape : OutputShapes, confidenceThreshold : Thresholds,
     outputData : {<<>>}, outcome : {NoOutcome}]

\* parseYoloOutput(outputData, outputShape, confidenceThreshold) runs.
ParseYoloOutput ==
    /\ parse.pc = "called"
    /\ \E outputData \in RawOutputs(parse.outputShape) :
          parse' = [parse EXCEPT
                      !.pc = "returned",
                      !.outputData = outputData,
                      !.outcome = parseYoloOutput(outputData, parse.outputShape,
                                                  parse.confidenceThreshold)]
    /\ UNCHANGED <<loaderVars, hookVars, frame, modelSession, nms, stageVars>>

----------------------------------------------------------------------------
(* runInference (app/lib/inference.ts), cut at its one await *)

InvalidInputTensorSize == "[Inference] Invalid input tensor size"
OutputTensorNotFound == "[Inference] Output tensor not found"
TensorSizeMismatch == "Tensor's size does not match data length"
RunFailed == "session.run rejected"

\* validateInputTensor(tensorData, expectedShape): TRUE when it throws.  Only
\* the length of tensorData is read.
validateInputTensor(tensorLength, expectedShape) ==
    LET expectedSize == expectedShape[1] * expectedShape[2] * expectedShape[3]
    IN  tensorLength # expectedSize

\* { ...DEFAULT_CONFIG, ...config }
Spread(defaults, config) ==
    [f \in DOMAIN defaults \cup DOMAIN config |->
        IF f \in DOMAIN config THEN config[f] ELSE defaults[f]]

\* array.slice(0, end)
SliceTo(seq, end) ==
    LET last == IF end < 0 THEN Len(seq) + end ELSE end
    IN  SubSeq(seq, 1, IF last > Len(seq) THEN Len(seq) ELSE last)

\* finalConfig.maxDetections ? detections.slice(0, maxDetections) : detections
filteredDetections(detections, finalConfig) ==
    IF "maxDetections" \in DOMAIN finalConfig /\ finalConfig.maxDetections # 0
    THEN SliceTo(detections, finalConfig.maxDetections)
    ELSE detections

\* Model sessions the loader hands over: metadata.input_shape is 640 x 640 for
\* the canonical models and 320 x 320 for a small one.
InputShapes == {<<1, 3, 640, 640>>, <<1, 3, 320, 320>>}
ModelSessions ==
    [inputShape : InputShapes, outputName : {"output0"}, released : {FALSE}]
CanonicalSession ==
    [inputShape |-> <<1, 3, 640, 640>>, outputName |-> "output0", released |-> FALSE]

TensorLengths == {100, 3 * 320 * 320, 3 * 640 * 640}

Limits == 0..MaxPredictions
Configs ==
    {Spread(t, m) :
        t \in {<<>>, [confidenceThreshold |-> 75]},
        m \in {<<>>} \cup [maxDetections : Limits]}

\* What session.run resolves with: a map from output names to tensors.  The
\* anchors of these tensors are an edge box or a box left of the image, with
\* one score for all classes.
FrameColumns ==
    [box : {<<0, 640, 2, 4>>, <<-1, 320, 2, 4>>},
     scores : {[c \in 0..(NUM_CLASSES - 1) |-> s] : s \in Scores}]
FrameShapes ==
    UNION {{<<1, NumFeatures, n>>, <<1, 1, NumFeatures, n>>, <<NumFeatures, n>>,
            <<1, NumFeatures + 1, n>>} : n \in 0..MaxPredictions}
OutputTensors ==
    UNION {[dims : {dims},
            data : {RawOutput(cols, dims[Len(dims) - 1], dims[Len(dims)]) :
                    cols \in [1..dims[Len(dims)] -> FrameColumns]}] :
           dims \in FrameShapes}
RunResults ==
    {<<>>} \cup {[output0 |-> t] : t \in OutputTensors}

NoFrame ==
    [pc |-> "idle", tensorLength |-> 0, config |-> <<>>, runInvoked |-> FALSE,
     results |-> <<>>, outcome |-> NoOutcome, earlier |-> "none"]

\* How a finished call ended, for the next call to remember.
Ending(f) ==
    IF f.pc = "idle" THEN "none"
    ELSE IF f.outcome.threw THEN f.outcome.error ELSE "returned"

\* runInference(modelSession, tensorData, config) up to its await (lines
\* 182-195).  new ort.Tensor is the runtime's constructor: whether it checks
\* the buffer against the dims is not the repository's code, so with a buffer
\* that does not fill the dims it either throws or builds the tensor.
RunInferenceCall(tensorLength, config) ==
    /\ frame.pc \in {"idle", "settled"}
    /\ LET call == [NoFrame EXCEPT !.tensorLength = tensorLength,
                                   !.config = config,
                                   !.earlier = Ending(frame)]
           s == modelSession.inputShape
           fills == tensorLength = s[1] * s[2] * s[3] * s[4]
       IN  IF validateInputTensor(tensorLength, <<3, 640, 640>>)
           THEN frame' = [call EXCEPT !.pc = "settled",
                                      !.outcome = Throws(InvalidInputTensorSize)]
           ELSE \E tensorThrows \in IF fills THEN {FALSE} ELSE BOOLEAN :
                   IF tensorThrows
                   THEN frame' = [call EXCEPT !.pc = "settled",
                                              !.outcome = Throws(TensorSizeMismatch)]
                   ELSE frame' = [call EXCEPT !.pc = "running",
                                              !.runInvoked = TRUE]
    /\ UNCHANGED <<loaderVars, hookVars, parse, modelSession, nms, stageVars>>

\* session.run resolves and runInference runs to its end (lines 197-224).
RunResolved(results) ==
    /\ frame.pc = "running"
    /\ LET finalConfig == Spread(DEFAULT_CONFIG, frame.config)
           name == modelSession.outputName
       IN  IF name \notin DOMAIN results
           THEN frame' = [frame EXCEPT !.pc = "settled", !.results = results,
                                       !.outcome = Throws(OutputTensorNotFound)]
           ELSE LET outputTensor == results[name]
                    parsed == parseYoloOutput(outputTensor.data, outputTensor.dims,
                                              finalConfig.confidenceThreshold)
                IN  IF parsed.threw
                    THEN frame' = [frame EXCEPT !.pc = "settled",
                                                !.results = results,
                                                !.outcome = parsed]
                    ELSE LET kept == filteredDetections(parsed.value, finalConfig)
                         IN  frame' =
                               [frame EXCEPT
                                  !.pc = "settled",
                                  !.results = results,
                                  !.outcome =
                                     Returns([detections |-> kept,
                                              numCandidates |-> 8400,
                                              numFiltered |-> Len(kept)])]
    /\ UNCHANGED <<loaderVars, hookVars, parse, modelSession, nms, stageVars>>

\* session.run rejects: the await throws and runInference rejects with it.
RunRejected ==
    /\ frame.pc = "running"
    /\ frame' = [frame EXCEPT !.pc = "settled", !.outcome = Throws(RunFailed)]
    /\ UNCHANGED <<loaderVars, hookVars, parse, modelSession, nms, stageVars>>

----------------------------------------------------------------------------
(* Non-Maximum Suppression (app/lib/nms.ts)                                *)
(*                                                                         *)
(* An IoU and an IoU threshold are fractions [num, den] with den > 0, and  *)
(* are compared by cross-multiplication.  Box sizes are even, so that the  *)
(* halves of convertToCornerCoords are whole numbers.                      *)

MaxBoxes == 3       \* detections given to one applyNMS call

Fraction(num, den) == [num |-> num, den |-> den]
AtMost(a, b) == a.num * b.den <= b.num * a.den
Above(a, b) == ~AtMost(a, b)

DEFAULT_NMS_CONFIG == [iouThreshold |-> Fraction(45, 100)]

Lower(a, b) == IF a < b THEN a ELSE b
Higher(a, b) == IF a > b THEN a ELSE b

\* A buggy variant: the corners are a whole width and height from the centre.
convertToCornerCoordsUnhalved(detection) ==
    Spread(detection,
           [x1 |-> detection.cx - detection.width,
            y1 |-> detection.cy - detection.height,
            x2 |-> detection.cx + detection.width,
            y2 |-> detection.cy + detection.height])

convertToCornerCoords(detection) ==
    Spread(detection,
           [x1 |-> detection.cx - detection.width \div 2,
            y1 |-> detection.cy - detection.height \div 2,
            x2 |-> detection.cx + detection.width \div 2,
            y2 |-> detection.cy + detection.height \div 2])

\* A buggy variant: the intersection is divided by the area of the first box.
calculateIoUOverFirst(boxA, boxB) ==
    LET intersectWidth ==
            Higher(0, Lower(boxA.x2, boxB.x2) - Higher(boxA.x1, boxB.x1))
        intersectHeight ==
            Higher(0, Lower(boxA.y2, boxB.y2) - Higher(boxA.y1, boxB.y1))
        boxAArea == (boxA.x2 - boxA.x1) * (boxA.y2 - boxA.y1)
    IN  IF boxAArea = 0 THEN Fraction(0, 1)
        ELSE Fraction(intersectWidth * intersectHeight, boxAArea)

calculateIoU(boxA, boxB) ==
    LET intersectX1 == Higher(boxA.x1, boxB.x1)
        intersectY1 == Higher(boxA.y1, boxB.y1)
        intersectX2 == Lower(boxA.x2, boxB.x2)
        intersectY2 == Lower(boxA.y2, boxB.y2)
        intersectWidth == Higher(0, intersectX2 - intersectX1)
        intersectHeight == Higher(0, intersectY2 - intersectY1)
        intersectArea == intersectWidth * intersectHeight
        boxAArea == (boxA.x2 - boxA.x1) * (boxA.y2 - boxA.y1)
        boxBArea == (boxB.x2 - boxB.x1) * (boxB.y2 - boxB.y1)
        unionArea == boxAArea + boxBArea - intersectArea
    IN  IF unionArea = 0 THEN Fraction(0, 1) ELSE Fraction(intersectArea, unionArea)

\* sortBy(boxes, [(box) => box.confidence, 'desc']): a stable sort, built by
\* inserting each box behind the boxes that are at least as confident.
RECURSIVE sortByConfidenceDesc(_)
sortByConfidenceDesc(boxes) ==
    IF boxes = <<>>
    THEN <<>>
    ELSE LET front == sortByConfidenceDesc(SubSeq(boxes, 1, Len(boxes) - 1))
             box == boxes[Len(boxes)]
         IN  SelectSeq(front, LAMBDA b : b.confidence >= box.confidence)
             \o <<box>>
             \o SelectSeq(front, LAMBDA b : b.confidence < box.confidence)

\* A buggy variant: a box whose IoU equals the threshold is dropped.
SurvivesBelow(best, box, iouThreshold) ==
    ~AtMost(iouThreshold, calculateIoU(best, box))

\* calculateIoU(best, box) <= iouThreshold (line 69)
Survives(best, box, iouThreshold) ==
    AtMost(calculateIoU(best, box), iouThreshold)

\* A buggy variant of the loop: the best box is compared with the next box only.
RECURSIVE suppressNextOnly(_, _, _)
suppressNextOnly(remaining, keep, iouThreshold) ==
    IF remaining = <<>>
    THEN keep
    ELSE LET best == Head(remaining)
             rest == Tail(remaining)
         IN  IF rest # <<>> /\ ~Survives(best, Head(rest), iouThreshold)
             THEN suppressNextOnly(Tail(rest), Append(keep, best), iouThreshold)
             ELSE suppressNextOnly(rest, Append(keep, best), iouThreshold)

\* The while loop of performNMSOnClass.
RECURSIVE suppress(_, _, _)
suppress(remaining, keep, iouThreshold) ==
    IF remaining = <<>>
    THEN keep
    ELSE LET best == Head(remaining)
             rest == Tail(remaining)
         IN  suppress(SelectSeq(rest, LAMBDA box : Survives(best, box, iouThreshold)),
                      Append(keep, best), iouThreshold)

performNMSOnClass(classBoxes, iouThreshold) ==
    suppress(sortByConfidenceDesc(classBoxes), <<>>, iouThreshold)

\* groupBy((box) => box.classId): the boxes of each class, in input order.
groupBy(boxes) ==
    [c \in {boxes[i].classId : i \in DOMAIN boxes} |->
        SelectSeq(boxes, LAMBDA b : b.classId = c)]

\* flatMap((buckets) => Object.values(buckets)): a JavaScript object lists its
\* integer keys in ascending order.
RECURSIVE flatValues(_, _)
flatValues(buckets, keys) ==
    IF keys = {}
    THEN <<>>
    ELSE LET c == CHOOSE k \in keys : \A other \in keys : k <= other
         IN  buckets[c] \o flatValues(buckets, keys \ {c})

\* A buggy variant: the boxes are not grouped by class.
applyNMSAcrossClasses(detections, config) ==
    IF Len(detections) = 0 THEN <<>>
    ELSE IF Len(detections) = 1 THEN <<convertToCornerCoords(detections[1])>>
    ELSE LET iouThreshold == Spread(DEFAULT_NMS_CONFIG, config).iouThreshold
             boxes == [i \in DOMAIN detections |-> convertToCornerCoords(detections[i])]
         IN  sortByConfidenceDesc(performNMSOnClass(boxes, iouThreshold))

\* A buggy variant: the recombined list is not sorted.
applyNMSUnsorted(detections, config) ==
    IF Len(detections) = 0 THEN <<>>
    ELSE IF Len(detections) = 1 THEN <<convertToCornerCoords(detections[1])>>
    ELSE LET iouThreshold == Spread(DEFAULT_NMS_CONFIG, config).iouThreshold
             boxes == [i \in DOMAIN detections |-> convertToCornerCoords(detections[i])]
             buckets == groupBy(boxes)
             kept == [c \in DOMAIN buckets |->
                        performNMSOnClass(buckets[c], iouThreshold)]
         IN  flatValues(kept, DOMAIN kept)

applyNMS(detections, config) ==
    IF Len(detections) = 0 THEN <<>>
    ELSE IF Len(detections) = 1 THEN <<convertToCornerCoords(detections[1])>>
    ELSE LET iouThreshold == Spread(DEFAULT_NMS_CONFIG, config).iouThreshold
             boxes == [i \in DOMAIN detections |-> convertToCornerCoords(detections[i])]
             buckets == groupBy(boxes)
             kept == [c \in DOMAIN buckets |->
                        performNMSOnClass(buckets[c], iouThreshold)]
         IN  sortByConfidenceDesc(flatValues(kept, DOMAIN kept))

\* Detections given to applyNMS: two classes, two confidences, and four boxes
\* in a row whose IoUs are 3/5 (neighbours), 1/3 (next but one) and 0.
NmsDetections ==
    [classId : {0, 1}, confidence : {50, 90}, cx : {2, 3, 4, 12}, cy : {1},
     width : {4}, height : {2}]
NmsConfigs ==
    {<<>>, [iouThreshold |-> Fraction(1, 3)], [iouThreshold |-> Fraction(3, 5)]}

DetectionLists == UNION {[1..n -> NmsDetections] : n \in 0..MaxBoxes}

NoNms == [pc |-> "idle", config |-> <<>>, detections |-> <<>>, result |-> <<>>]

NmsCalls ==
    [pc : {"called"}, config : NmsConfigs, detections : {<<>>}, result : {<<>>}]

\* applyNMS(detections, config) runs.
ApplyNMS ==
    /\ nms.pc = "called"
    /\ \E detections \in DetectionLists :
          nms' = [nms EXCEPT !.pc = "returned",
                             !.detections = detections,
                             !.result = applyNMS(detections, nms.config)]
    /\ UNCHANGED <<loaderVars, hookVars, parse, frame, modelSession, stageVars>>

----------------------------------------------------------------------------
(* calculateIoU called on its own (nms.ts) *)

\* Corner coordinates of the boxes calculateIoU is called with.
MaxCoord == 3

\* Corner boxes with x1 <= x2 and y1 <= y2, boxes of no area among them.
CornerBoxes ==
    {b \in [x1 : 0..MaxCoord, y1 : 0..MaxCoord, x2 : 0..MaxCoord, y2 : 0..MaxCoord] :
        b.x1 <= b.x2 /\ b.y1 <= b.y2}

NoIou == [pc |-> "idle", boxA |-> <<>>, boxB |-> <<>>, result |-> <<>>]

IouCalls == [pc : {"called"}, boxA : CornerBoxes, boxB : {<<>>}, result : {<<>>}]

\* calculateIoU(boxA, boxB) runs.
CalculateIoU ==
    /\ iou.pc = "called"
    /\ \E boxB \in CornerBoxes :
          iou' = [iou EXCEPT !.pc = "returned",
                             !.boxB = boxB,
                             !.result = calculateIoU(iou.boxA, boxB)]
    /\ UNCHANGED <<loaderVars, hookVars, parse, frame, modelSession, nms, post, cv, pre>>

----------------------------------------------------------------------------
(* Postprocessing: transformCoordinates, enrichWithClassNames, filterByClass,
   postProcessDetections (postprocess.ts).  Coordinates and the scale are exact
   fractions with a positive denominator. *)

Whole(n) == Fraction(n, 1)
Quotient(a, b) == Fraction(a.num * b.den, a.den * b.num)
Difference(a, b) == Fraction(a.num * b.den - b.num * a.den, a.den * b.den)

\* A buggy variant: the upper limit is not applied.
clampMinOnly(value, limits) ==
    IF Above(limits.min, value) THEN limits.min ELSE value

\* remeda's clamp(value, { min, max }).
clamp(value, limits) ==
    IF Above(limits.min, value) THEN limits.min
    ELSE IF Above(value, limits.max) THEN limits.max
    ELSE value

transformCoordinates(detection, metadata) ==
    LET scale == metadata.scale
        originalWidth == metadata.originalWidth
        originalHeight == metadata.originalHeight
        x1 == Quotient(detection.x1, scale)
        y1 == Quotient(detection.y1, scale)
        x2 == Quotient(detection.x2, scale)
        y2 == Quotient(detection.y2, scale)
        clampedX1 == clamp(x1, [min |-> Whole(0), max |-> originalWidth])
        clampedY1 == clamp(y1, [min |-> Whole(0), max |-> originalHeight])
        clampedX2 == clamp(x2, [min |-> Whole(0), max |-> originalWidth])
        clampedY2 == clamp(y2, [min |-> Whole(0), max |-> originalHeight])
    IN  [classId |-> detection.classId,
         confidence |-> detection.confidence,
         x1 |-> clampedX1,
         y1 |-> clampedY1,
         x2 |-> clampedX2,
         y2 |-> clampedY2,
         width |-> Difference(clampedX2, clampedX1),
         height |-> Difference(clampedY2, clampedY1)]

\* The template literal `class_${classId}`.
Placeholder(classId) == "class_" \o ToString(classId)

\* A buggy variant: an empty name is replaced by the placeholder as well.
enrichWithTruthyNames(detections, classMap) ==
    [i \in DOMAIN detections |->
        Spread(detections[i],
               [className |->
                   IF /\ detections[i].classId \in DOMAIN classMap
                      /\ classMap[detections[i].classId] # ""
                   THEN classMap[detections[i].classId]
                   ELSE Placeholder(detections[i].classId)])]

\* A Map<number, string> is a function on the identifiers it has.
enrichWithClassNames(detections, classMap) ==
    [i \in DOMAIN detections |->
        Spread(detections[i],
               [className |->
                   IF detections[i].classId \in DOMAIN classMap
                   THEN classMap[detections[i].classId]
                   ELSE Placeholder(detections[i].classId)])]

SetOf(seq) == {seq[i] : i \in DOMAIN seq}

\* A buggy variant: the detections of the listed classes are the ones removed.
filterByClassExcluded(detections, allowedClassIds) ==
    IF Len(allowedClassIds) = 0 THEN detections
    ELSE LET allowedSet == SetOf(allowedClassIds)
             has(det) == det.classId \notin allowedSet
         IN  SelectSeq(detections, has)

filterByClass(detections, allowedClassIds) ==
    IF Len(allowedClassIds) = 0 THEN detections
    ELSE LET allowedSet == SetOf(allowedClassIds)
             has(det) == det.classId \in allowedSet
         IN  SelectSeq(detections, has)

postProcessDetections(detections, metadata, classMap, config) ==
    LET transformed ==
            [i \in DOMAIN detections |-> transformCoordinates(detections[i], metadata)]
        enriched == enrichWithClassNames(transformed, classMap)
    IN  IF "allowedClassIds" \in DOMAIN config /\ Len(config.allowedClassIds) > 0
        THEN filterByClass(enriched, config.allowedClassIds)
        ELSE enriched

\* Longest list postProcessDetections and enrichWithClassNames are given.
MaxFinal == 2

\* Class identifiers of the detections: two the class maps know and one they
\* do not.
PostClassIds == {0, 1, 7}

\* Corner coordinates in model space: left of the frame, on its edge, inside
\* it (a fraction among them) and beyond it.
PostCoords == {Whole(-2), Whole(0), Fraction(5, 2), Whole(4), Whole(9)}

\* Detections with x1 <= x2 and y1 <= y2.
PostBoxes ==
    {b \in [x1 : PostCoords, y1 : PostCoords, x2 : PostCoords, y2 : PostCoords] :
        AtMost(b.x1, b.x2) /\ AtMost(b.y1, b.y2)}

PostDetection(classId, confidence, box) ==
    [classId |-> classId, confidence |-> confidence,
     x1 |-> box.x1, y1 |-> box.y1, x2 |-> box.x2, y2 |-> box.y2]

TransformInputs ==
    {PostDetection(c, p, b) : c \in {0}, p \in {50, 90}, b \in PostBoxes}

\* Scale below, at and above 1; a frame wider than high and a square one.
Metadatas ==
    [scale : {Fraction(1, 3), Whole(1), Whole(2)},
     originalWidth : {Whole(6), Whole(3)},
     originalHeight : {Whole(3)}]

ListedBoxes ==
    {[x1 |-> Whole(0), y1 |-> Whole(0), x2 |-> Whole(4), y2 |-> Whole(4)],
     [x1 |-> Whole(-2), y1 |-> Whole(0), x2 |-> Fraction(5, 2), y2 |-> Whole(9)]}

ListedDetections ==
    {PostDetection(c, p, b) : c \in PostClassIds, p \in {50, 90}, b \in ListedBoxes}

PostLists == UNION {[1..n -> ListedDetections] : n \in 0..MaxFinal}

\* Class maps: empty, two classes, and one whose class 0 has an empty name.
NoClasses == [c \in {} |-> ""]
ClassMaps ==
    {NoClasses,
     [c \in {0, 1} |-> IF c = 0 THEN "person" ELSE "bicycle"],
     [c \in {0, 1} |-> IF c = 0 THEN "" ELSE "bicycle"]}

\* No configuration, an empty one, and allow-lists that are empty, name one or
\* two classes, or name no class of the detections.
PostConfigs ==
    {<<>>} \cup [allowedClassIds : {<<>>, <<0>>, <<7, 0>>, <<1, 1>>, <<5>>}]

NoPost ==
    [pc |-> "idle", fn |-> "", detections |-> <<>>, metadata |-> <<>>,
     classMap |-> NoClasses, config |-> <<>>, result |-> <<>>]

TransformCalls ==
    [pc : {"called"}, fn : {"transformCoordinates"}, detections : {<<>>},
     metadata : Metadatas, classMap : {NoClasses}, config : {<<>>}, result : {<<>>}]

EnrichCalls ==
    [pc : {"called"}, fn : {"enrichWithClassNames"}, detections : {<<>>},
     metadata : {CHOOSE m \in Metadatas : m.scale = Whole(1)},
     classMap : ClassMaps, config : {<<>>}, result : {<<>>}]

PostProcessCalls ==
    [pc : {"called"}, fn : {"postProcessDetections"}, detections : {<<>>},
     metadata : {m \in Metadatas : m.originalWidth = Whole(6)},
     classMap : ClassMaps, config : PostConfigs, result : {<<>>}]

\* transformCoordinates(detection, metadata) runs.
TransformCoordinates ==
    /\ post.pc = "called" /\ post.fn = "transformCoordinates"
    /\ \E detection \in TransformInputs :
          post' = [post EXCEPT !.pc = "returned",
                               !.detections = <<detection>>,
                               !.result = transformCoordinates(detection, post.metadata)]
    /\ UNCHANGED <<loaderVars, hookVars, parse, frame, modelSession, nms, iou, cv, pre>>

\* enrichWithClassNames(detections, classMap) runs on transformed detections.
EnrichWithClassNames ==
    /\ post.pc = "called" /\ post.fn = "enrichWithClassNames"
    /\ \E list \in PostLists :
          LET detections ==
                  [i \in DOMAIN list |-> transformCoordinates(list[i], post.metadata)]
          IN  post' = [post EXCEPT !.pc = "returned",
                                   !.detections = detections,
                                   !.result = enrichWithClassNames(detections,
                                                                   post.classMap)]
    /\ UNCHANGED <<loaderVars, hookVars, parse, frame, modelSession, nms, iou, cv, pre>>

\* postProcessDetections(detections, metadata, classMap, config) runs.
PostProcessDetections ==
    /\ post.pc = "called" /\ post.fn = "postProcessDetections"
    /\ \E detections \in PostLists :
          post' = [post EXCEPT !.pc = "returned",
                               !.detections = detections,
                               !.result = postProcessDetections(detections,
                                              post.metadata, post.classMap, post.config)]
    /\ UNCHANGED <<loaderVars, hookVars, parse, frame, modelSession, nms, iou, cv, pre>>

----------------------------------------------------------------------------
(* preprocessImage and cleanupMats (preprocess.ts, opencv-loader.ts) *)

FailedToGetContext == "Failed to get canvas 2d context"
OpenCvError == "OpenCV error"

\* What preprocessImage does after getOpenCV has resolved, in order.
PreprocessSteps ==
    <<"getContext", "drawImage", "imread", "new Mat matC3", "cvtColor",
      "new Mat matPad", "copyMakeBorder", "new Mat matResized", "resize",
      "blobFromImage", "new Float32Array">>

\* The Mat a step hands to mats.push when it completes.
Pushed(step) ==
    CASE step = "imread" -> <<"mat">>
      [] step = "new Mat matC3" -> <<"matC3">>
      [] step = "new Mat matPad" -> <<"matPad">>
      [] step = "new Mat matResized" -> <<"matResized">>
      [] step = "blobFromImage" -> <<"inputBlob">>
      [] OTHER -> <<>>

\* mats after the first n steps have completed.
RECURSIVE matsAfter(_)
matsAfter(n) ==
    IF n = 0 THEN <<>> ELSE matsAfter(n - 1) \o Pushed(PreprocessSteps[n])

\* A buggy variant: only the last Mat is deleted.
cleanupLastMat(mats) ==
    IF Len(mats) = 0 THEN <<>> ELSE <<mats[Len(mats)]>>

\* cleanupMats(...mats): the Mats whose delete() is called, in order.
cleanupMats(mats) == mats

\* A buggy variant: the padding is split between the two sides.
letterboxCentred(rows, cols) ==
    LET maxSize == Higher(rows, cols)
        yPad == maxSize - rows
        xPad == maxSize - cols
    IN  [maxSize |-> maxSize, yPad |-> yPad, xPad |-> xPad,
         top |-> yPad - yPad \div 2, bottom |-> yPad \div 2,
         left |-> xPad - xPad \div 2, right |-> xPad \div 2]

\* Stage 3: the square the frame is padded to, and the border copyMakeBorder
\* is asked for.
letterbox(rows, cols) ==
    LET maxSize == Higher(rows, cols)
        yPad == maxSize - rows
        xPad == maxSize - cols
    IN  [maxSize |-> maxSize, yPad |-> yPad, xPad |-> xPad,
         top |-> 0, bottom |-> yPad, left |-> 0, right |-> xPad]

\* The PreprocessResult, without the tensor's values.
PreprocessResult(video, modelWidth, modelHeight) ==
    LET box == letterbox(video.videoHeight, video.videoWidth)
    IN  [tensorLength |-> 3 * modelWidth * modelHeight,
         scale |-> Fraction(modelWidth, box.maxSize),
         padX |-> box.xPad,
         padY |-> box.yPad,
         originalWidth |-> video.videoWidth,
         originalHeight |-> video.videoHeight]

\* Where a point of the frame lies in the model's input: copyMakeBorder moves
\* it by the left and top border, resize scales the padded image to the
\* model's size.
InModelSpace(point, video, modelWidth, modelHeight) ==
    LET box == letterbox(video.videoHeight, video.videoWidth)
    IN  [x |-> Fraction((point.x + box.left) * modelWidth,
                        video.videoWidth + box.left + box.right),
         y |-> Fraction((point.y + box.top) * modelHeight,
                        video.videoHeight + box.top + box.bottom)]

\* Sides of the video frames.
MaxSide == 3

Videos == [videoWidth : 1..MaxSide, videoHeight : 1..MaxSide]

\* Sides of the square model inputs.
ModelSizes == {IMAGE_SIZE, 320}

\* The step that throws: 0 when none does.
FailurePoints == 0..Len(PreprocessSteps)

NoPre ==
    [pc |-> "idle", video |-> <<>>, modelWidth |-> 0, modelHeight |-> 0,
     ran |-> <<>>, allocated |-> <<>>, deleted |-> <<>>, outcome |-> NoOutcome,
     box |-> <<>>]

PreprocessCalls ==
    [pc : {"getOpenCV"}, video : Videos,
     modelWidth : ModelSizes, modelHeight : ModelSizes,
     ran : {<<>>}, allocated : {<<>>}, deleted : {<<>>}, outcome : {NoOutcome},
     box : {<<>>}]

\* await getOpenCV() rejects: preprocessImage rejects with the same error.
GetOpenCVRejected ==
    /\ pre.pc = "getOpenCV"
    /\ pre' = [pre EXCEPT !.pc = "settled", !.outcome = Throws(OpenCvError)]
    /\ UNCHANGED <<loaderVars, hookVars, parse, frame, modelSession, nms, iou, post, cv>>

\* await getOpenCV() resolves and preprocessImage runs to its end: every step
\* completes, or step `failure` throws (getContext fails by returning null).
\* The finally block runs once mats exists, that is from imread on.
PreprocessImage(failure) ==
    /\ pre.pc = "getOpenCV"
    /\ LET completed == IF failure = 0 THEN Len(PreprocessSteps) ELSE failure - 1
           ran == SubSeq(PreprocessSteps, 1,
                         IF failure = 0 THEN Len(PreprocessSteps) ELSE failure)
           mats == matsAfter(completed)
           inTry == failure = 0 \/ failure >= 3
       IN  pre' = [pre EXCEPT
                     !.pc = "settled",
                     !.ran = ran,
                     !.allocated = mats,
                     !.deleted = IF inTry THEN cleanupMats(mats) ELSE <<>>,
                     !.outcome =
                         IF failure = 0
                         THEN Returns(PreprocessResult(pre.video, pre.modelWidth,
                                                       pre.modelHeight))
                         ELSE IF failure = 1 THEN Throws(FailedToGetContext)
                         ELSE Throws(OpenCvError)]
    /\ UNCHANGED <<loaderVars, hookVars, parse, frame, modelSession, nms, iou, post, cv>>

\* Boxes with whole corners inside the frame.
BoxesInside(video) ==
    {b \in [x1 : 0..video.videoWidth, y1 : 0..video.videoHeight,
            x2 : 0..video.videoWidth, y2 : 0..video.videoHeight] :
        b.x1 <= b.x2 /\ b.y1 <= b.y2}

\* A box of the frame is found by the model where the letterbox put it, and
\* transformCoordinates maps it back with the geometry preprocessImage
\* returned.
MapBack ==
    /\ pre.pc = "settled" /\ ~pre.outcome.threw
    /\ post = NoPost
    /\ \E box \in BoxesInside(pre.video) :
          LET from == InModelSpace([x |-> box.x1, y |-> box.y1], pre.video,
                                   pre.modelWidth, pre.modelHeight)
              to == InModelSpace([x |-> box.x2, y |-> box.y2], pre.video,
                                 pre.modelWidth, pre.modelHeight)
              detection == [classId |-> 0, confidence |-> 90,
                            x1 |-> from.x, y1 |-> from.y, x2 |-> to.x, y2 |-> to.y]
              result == pre.outcome.value
              metadata == [scale |-> result.scale,
                           originalWidth |-> Whole(result.originalWidth),
                           originalHeight |-> Whole(result.originalHeight)]
          IN  /\ pre' = [pre EXCEPT !.pc = "mapped", !.box = box]
              /\ post' = [post EXCEPT
                            !.pc = "returned",
                            !.fn = "transformCoordinates",
                            !.detections = <<detection>>,
                            !.metadata = metadata,
                            !.result = transformCoordinates(detection, metadata)]
    /\ UNCHANGED <<loaderVars, hookVars, parse, frame, modelSession, nms, iou, cv>>

----------------------------------------------------------------------------
(* getOpenCV (opencv-loader.ts) *)

\* getOpenCV calls made on the page.
MaxGetCalls == 3

NoCV == "null"
NoPromise == 0

\* What '@techstark/opencv-js' exports: a Promise of the runtime, or the
\* runtime's module, which has Mat once the runtime has initialized.
ModuleKinds == {"promise", "module"}

NoCv ==
    [cvInstance |-> NoCV, cvPromise |-> NoPromise, cvModule |-> "module",
     imported |-> FALSE, runtime |-> "initializing",
     onRuntimeInitialized |-> NoPromise, calls |-> <<>>, promises |-> <<>>]

OpenCvPages ==
    [cvInstance : {NoCV}, cvPromise : {NoPromise}, cvModule : ModuleKinds,
     imported : {FALSE}, runtime : {"initializing"},
     onRuntimeInitialized : {NoPromise}, calls : {<<>>}, promises : {<<>>}]

\* getOpenCV() is called and runs to its first return or await.
GetOpenCV ==
    /\ Len(cv.calls) < MaxGetCalls
    /\ cv' = [cv EXCEPT !.calls =
                 Append(@,
                     IF cv.cvInstance # NoCV
                     THEN [pc |-> "returned", promise |-> NoPromise]
                     ELSE IF cv.cvPromise # NoPromise
                     THEN [pc |-> "returned", promise |-> cv.cvPromise]
                     ELSE [pc |-> "import", promise |-> NoPromise])]
    /\ UNCHANGED <<loaderVars, hookVars, parse, frame, modelSession, nms, iou, post, pre>>

\* The module has been fetched and evaluated: import() is fulfilled for the
\* calls that wait for it and for later ones.
ModuleEvaluated ==
    /\ ~cv.imported
    /\ \E c \in DOMAIN cv.calls : cv.calls[c].pc = "import"
    /\ cv' = [cv EXCEPT !.imported = TRUE]
    /\ UNCHANGED <<loaderVars, hookVars, parse, frame, modelSession, nms, iou, post, pre>>

\* Call c continues after await import(): the async function of lines 28-48
\* starts and runs to its first await or to its end, its promise is assigned
\* to cvPromise and returned.  Continuations run in the order of the calls.
ImportResumed(c) ==
    /\ cv.imported
    /\ cv.calls[c].pc = "import"
    /\ \A b \in 1..(c - 1) : cv.calls[b].pc # "import"
    /\ LET p == Len(cv.promises) + 1
           started ==
               [cv EXCEPT !.cvPromise = p,
                          !.calls[c] = [pc |-> "returned", promise |-> p]]
       IN  cv' =
             IF cv.cvModule = "promise"
             THEN [started EXCEPT !.promises = Append(@, "await cvModule")]
             ELSE IF cv.runtime = "initialized"
             THEN [started EXCEPT !.promises = Append(@, "fulfilled"),
                                  !.cvInstance = "cv"]
             ELSE [started EXCEPT !.promises = Append(@, "await callback"),
                                  !.onRuntimeInitialized = p]
    /\ UNCHANGED <<loaderVars, hookVars, parse, frame, modelSession, nms, iou, post, pre>>

\* The runtime has initialized: the exported Promise is fulfilled, or the
\* module has Mat and calls its onRuntimeInitialized.
RuntimeInitialized ==
    /\ cv.imported
    /\ cv.runtime = "initializing"
    /\ cv' = [cv EXCEPT
                !.runtime = "initialized",
                !.promises =
                    [p \in DOMAIN @ |->
                        IF cv.cvModule = "module" /\ p = cv.onRuntimeInitialized
                        THEN "resolve called" ELSE @[p]]]
    /\ UNCHANGED <<loaderVars, hookVars, parse, frame, modelSession, nms, iou, post, pre>>

\* The async function behind promise p continues after its await, assigns
\* cvInstance and returns.
InitResumed(p) ==
    /\ \/ cv.promises[p] = "resolve called"
       \/ cv.promises[p] = "await cvModule" /\ cv.runtime = "initialized"
    /\ cv' = [cv EXCEPT !.promises[p] = "fulfilled", !.cvInstance = "cv"]
    /\ UNCHANGED <<loaderVars, hookVars, parse, frame, modelSession, nms, iou, post, pre>>


\* No function of the pipeline has been called.
PipelineIdle ==
    /\ parse = NoParse
    /\ frame = NoFrame
    /\ modelSession = CanonicalSession
    /\ nms = NoNms

\* None of calculateIoU, the postprocessing, getOpenCV and preprocessImage
\* has been called.
StagesIdle ==
    /\ iou = NoIou
    /\ post = NoPost
    /\ cv = NoCv
    /\ pre = NoPre

----------------------------------------------------------------------------
(* Initial states and specifications *)

Init ==
    /\ isInitialized = FALSE
    /\ env \in InitialEnvs
    /\ nodeEnv \in {"development", "production"}
    /\ browser \in BrowserCapabilities
    /\ envWrites = 0
    /\ directInits = 0
    /\ loads = <<>>
    /\ rels = <<>>
    /\ sessions = <<>>
    /\ state = InitialHookState
    /\ sessionRef = NullModelSession
    /\ mounted = TRUE
    /\ ops = <<>>
    /\ parse = NoParse
    /\ frame = NoFrame
    /\ modelSession = CanonicalSession
    /\ nms = NoNms
    /\ StagesIdle

Next ==
    \/ InitCall
    \/ \E p \in ExecutionProvider \cup {NoProvider} : DirectLoad(p)
    \/ \E l \in 1..Len(loads) : DirectLoadReturn(l)
    \/ \E s \in 1..Len(sessions) : DirectRelease(s)
    \/ \E l \in 1..Len(loads) : LoadDetected(l)
    \/ \E l \in 1..Len(loads) : CreateOk(l)
    \/ \E l \in 1..Len(loads) : CreateFail(l)
    \/ \E r \in 1..Len(rels) : TeardownOk(r)
    \/ \E r \in 1..Len(rels) : TeardownFail(r)

\* Direct callers in a browser with WebAssembly, SIMD and threads, with or
\* without WebGPU.
LoaderInit ==
    /\ Init
    /\ browser.wasm /\ browser.simd /\ browser.threads

Spec == LoaderInit /\ [][Next]_vars

\* Direct callers in every browser, on a page that left the settings alone.
CapabilityInit ==
    /\ Init
    /\ env.wasmPaths = ""
    /\ nodeEnv = "production"

CapabilitySpec == CapabilityInit /\ [][Next]_vars


\* The hook alone drives the loader, on a page that left the settings alone,
\* in a browser with WebAssembly, SIMD and threads, with or without WebGPU.
HookInit ==
    /\ Init
    /\ env.wasmPaths = ""
    /\ nodeEnv = "production"
    /\ browser.wasm /\ browser.simd /\ browser.threads

HookNext ==
    \/ \E p \in ExecutionProvider \cup {NoProvider} : HookLoadModel(p)
    \/ SwitchModel
    \/ UnloadModel
    \/ Unmount
    \/ \E o \in 1..Len(ops) : LoadModelFnSettled(o)
    \/ \E o \in 1..Len(ops) : SwitchReleased(o)
    \/ \E o \in 1..Len(ops) : UnloadReleased(o)
    \/ \E l \in 1..Len(loads) : LoadDetected(l)
    \/ \E l \in 1..Len(loads) : CreateOk(l)
    \/ \E l \in 1..Len(loads) : CreateFail(l)
    \/ \E r \in 1..Len(rels) : TeardownOk(r)
    \/ \E r \in 1..Len(rels) : TeardownFail(r)

HookSpec == HookInit /\ [][HookNext]_vars

\* A page whose loader and hook are left alone while the functions of the
\* detection pipeline are called.
PageInit ==
    /\ isInitialized = FALSE
    /\ env \in InitialEnvs
    /\ env.wasmPaths = ""
    /\ nodeEnv = "production"
    /\ browser = [webgpu |-> TRUE, wasm |-> TRUE, simd |-> TRUE, threads |-> TRUE]
    /\ envWrites = 0
    /\ directInits = 0
    /\ loads = <<>>
    /\ rels = <<>>
    /\ sessions = <<>>
    /\ state = InitialHookState
    /\ sessionRef = NullModelSession
    /\ mounted = TRUE
    /\ ops = <<>>

\* Callers of parseYoloOutput.
ParseInit ==
    /\ PageInit
    /\ parse \in ParseCalls
    /\ frame = NoFrame
    /\ modelSession = CanonicalSession
    /\ nms = NoNms
    /\ StagesIdle

ParseNext == ParseYoloOutput

ParseSpec == ParseInit /\ [][ParseNext]_vars

\* Frames are run through runInference on one model session, one at a time.
InferInit ==
    /\ PageInit
    /\ parse = NoParse
    /\ frame = NoFrame
    /\ modelSession \in ModelSessions
    /\ nms = NoNms
    /\ StagesIdle

InferNext ==
    \/ \E tensorLength \in TensorLengths, config \in Configs :
          RunInferenceCall(tensorLength, config)
    \/ \E results \in RunResults : RunResolved(results)
    \/ RunRejected

InferSpec == InferInit /\ [][InferNext]_vars

\* Callers of applyNMS.
NmsInit ==
    /\ PageInit
    /\ parse = NoParse
    /\ frame = NoFrame
    /\ modelSession = CanonicalSession
    /\ nms \in NmsCalls
    /\ StagesIdle

NmsNext == ApplyNMS

NmsSpec == NmsInit /\ [][NmsNext]_vars

\* Callers of calculateIoU.
IouInit ==
    /\ PageInit
    /\ PipelineIdle
    /\ iou \in IouCalls
    /\ post = NoPost
    /\ cv = NoCv
    /\ pre = NoPre

IouNext == CalculateIoU

IouSpec == IouInit /\ [][IouNext]_vars

\* Callers of the postprocessing functions.
PostInit ==
    /\ PageInit
    /\ PipelineIdle
    /\ iou = NoIou
    /\ post \in TransformCalls \cup EnrichCalls \cup PostProcessCalls
    /\ cv = NoCv
    /\ pre = NoPre

PostNext ==
    \/ TransformCoordinates
    \/ EnrichWithClassNames
    \/ PostProcessDetections

PostSpec == PostInit /\ [][PostNext]_vars

\* Callers of preprocessImage with a square model input.
PreprocessInit ==
    /\ PageInit
    /\ PipelineIdle
    /\ iou = NoIou
    /\ post = NoPost
    /\ cv = NoCv
    /\ pre \in {c \in PreprocessCalls : c.modelWidth = c.modelHeight}

PreprocessNext ==
    \/ GetOpenCVRejected
    \/ \E failure \in FailurePoints : PreprocessImage(failure)
    \/ MapBack

PreprocessSpec == PreprocessInit /\ [][PreprocessNext]_vars

\* Callers of getOpenCV on a page that has not imported OpenCV.js yet.
OpenCvInit ==
    /\ PageInit
    /\ PipelineIdle
    /\ iou = NoIou
    /\ post = NoPost
    /\ cv \in OpenCvPages
    /\ pre = NoPre

OpenCvNext ==
    \/ GetOpenCV
    \/ ModuleEvaluated
    \/ \E c \in DOMAIN cv.calls : ImportResumed(c)
    \/ RuntimeInitialized
    \/ \E p \in DOMAIN cv.promises : InitResumed(p)

OpenCvSpec == OpenCvInit /\ [][OpenCvNext]_vars

----------------------------------------------------------------------------
(* Properties of loadModel, initializeOnnxEnv and releaseModel *)

\* The fixed priority order, stated independently of the code's array.
PriorityOrder == <<"webgpu", "wasm", "cpu">>
PriorityRank(p) == CHOOSE i \in 1..3 : PriorityOrder[i] = p

Started(load) == load.pc \in {"creating", "resolved", "rejected"}
SessionsOf(l) == {s \in 1..Len(sessions) : sessions[s].load = l}

\* C1: loadModel tries the backends one at a time in the order webgpu, wasm,
\* cpu from the target backend (the preferred one, else the selected one); an
\* attempt exists only when all attempts before it have failed, the successful
\* attempt is the last one, and the returned session and LoadResult carry the
\* backend of that attempt.
C1_FallbackInOrder ==
    \A l \in 1..Len(loads) :
        LET load == loads[l]
            n == Len(load.attempts)
        IN Started(load) =>
            /\ load.targetProvider =
                 IF load.preferred # NoProvider THEN load.preferred
                 ELSE selectExecutionProvider(browser)
            /\ n >= 1
            /\ \A i \in 1..n :
                 /\ PriorityRank(load.targetProvider) + i - 1 <= 3
                 /\ load.attempts[i].provider =
                      PriorityOrder[PriorityRank(load.targetProvider) + i - 1]
                 /\ load.attempts[i].options.executionProviders =
                      load.attempts[i].provider
            /\ \A i \in 1..(n - 1) : load.attempts[i].outcome = "failed"
            /\ load.pc = "creating" => load.attempts[n].outcome = "pending"
            /\ load.pc = "rejected" => load.attempts[n].outcome = "failed"
            /\ load.pc # "resolved" => SessionsOf(l) = {}
            /\ load.pc = "resolved" =>
                 /\ load.attempts[n].outcome = "ok"
                 /\ SessionsOf(l) = {load.result.session.session}
                 /\ sessions[load.result.session.session].backend =
                      load.attempts[n].provider
                 /\ load.result.session.executionProvider =
                      load.attempts[n].provider
                 /\ load.result.executionProvider = load.attempts[n].provider

\* A load without a preference that succeeded on a later candidate than its
\* target.
C1_Witness ==
    \E l \in 1..Len(loads) :
        /\ loads[l].pc = "resolved"
        /\ loads[l].preferred = NoProvider
        /\ Len(loads[l].attempts) >= 2
        /\ loads[l].result.executionProvider # loads[l].targetProvider

\* C2: a load whose every attempted candidate failed is rejected with the
\* model-load-failed error carrying the last candidate's error, and returns no
\* session; a settled load has either a created session or that error.
C2_AllFailedIsLoadFailed ==
    \A l \in 1..Len(loads) :
        LET load == loads[l]
            n == Len(load.attempts)
            allFailed == /\ n >= 1
                         /\ \A i \in 1..n : load.attempts[i].outcome = "failed"
        IN /\ Started(load) /\ allFailed /\ load.attempts[n].provider = "cpu"
                => load.pc = "rejected"
           /\ load.pc = "rejected" =>
                /\ allFailed
                /\ load.attempts[n].error =
                     SessionCreateError(load.attempts[n].provider)
                /\ load.error = [kind |-> "ModelLoadFailed",
                                 cause |-> load.attempts[n].error]
                /\ load.result = NoResult
                /\ SessionsOf(l) = {}
           /\ load.pc = "resolved" =>
                /\ load.error = NoFailure
                /\ load.result.session.session \in 1..Len(sessions)

\* A load rejected after more than one candidate failed.
C2_Witness ==
    \E l \in 1..Len(loads) :
        /\ loads[l].pc = "rejected"
        /\ Len(loads[l].attempts) >= 2

\* What the capability summary marks usable.
Usable(capabilities, provider) ==
    IF provider = "webgpu" THEN capabilities.webgpu
    ELSE IF provider = "wasm"
    THEN capabilities.wasm /\ capabilities.simd /\ capabilities.threads
    ELSE TRUE

\* C3: without a preferred backend, every backend loadModel attempts is one
\* the capability summary marks usable.
C3_AttemptsAreUsable ==
    \A l \in 1..Len(loads) :
        loads[l].preferred = NoProvider =>
            \A i \in 1..Len(loads[l].attempts) :
                Usable(browser, loads[l].attempts[i].provider)

\* C4: a failed loadModel leaves the initialization flag and the environment
\* settings as they were when it was called.
C4_FailureLeavesGlobalsAlone ==
    \A l \in 1..Len(loads) :
        loads[l].pc = "rejected" =>
            loads[l].pre = [isInitialized |-> isInitialized, env |-> env]

\* Calls that run initializeOnnxEnv: the direct ones and every loadModel.
InitRuns == directInits + Len(loads)

\* C5: the environment settings are written by the first call that runs the
\* setup and by no later one, and every session-creation attempt is issued
\* with the setup in effect.
C5_SetupOnce ==
    /\ envWrites <= 1
    /\ InitRuns = 0 => ~isInitialized /\ envWrites = 0
    /\ InitRuns >= 1 =>
         /\ isInitialized
         /\ envWrites = 1
         /\ env = ConfiguredEnv(env)
    /\ \A l \in 1..Len(loads) :
         \A i \in 1..Len(loads[l].attempts) : loads[l].attempts[i].envReady

\* A second call of the setup was made, and a load has issued an attempt.
C5_Witness ==
    /\ InitRuns >= 2
    /\ \E l \in 1..Len(loads) : Len(loads[l].attempts) >= 1

\* C6: releaseModel never rejects; once the session's teardown has settled,
\* well or not, the release has completed normally.
C6_ReleaseNeverThrows ==
    \A r \in 1..Len(rels) :
        /\ rels[r].pc # "rejected"
        /\ rels[r].teardown # "pending" => rels[r].pc = "resolved"

\* A release issued again on an already released session, whose teardown
\* failed.
C6_Witness ==
    \E r \in 1..Len(rels) :
        /\ rels[r].again
        /\ rels[r].teardown = "failed"
        /\ rels[r].pc = "resolved"

----------------------------------------------------------------------------
(* Properties of useModelLoader *)

ReleaseIssued(s) == sessions[s].released > 0

\* C7: the session the mounted hook exposes in its state is never one on
\* which release has been issued.
C7_ExposedSessionNotReleased ==
    mounted /\ state.session # NullModelSession =>
        ~ReleaseIssued(state.session.session)

\* C8: at most one created session has not had release issued on it.
C8_AtMostOneActiveSession ==
    Cardinality({s \in 1..Len(sessions) : ~ReleaseIssued(s)}) <= 1

ReleasesBy(o) == {r \in 1..Len(rels) : rels[r].owner = o}
LoadsBy(o) == {l \in 1..Len(loads) : loads[l].owner = o}

Quiescent ==
    /\ \A o \in 1..Len(ops) : ops[o].pc = "done"
    /\ \A l \in 1..Len(loads) : loads[l].pc = "returned"
    /\ \A r \in 1..Len(rels) : rels[r].pc # "pending"

\* C10: once the hook is unmounted and everything pending has settled, every
\* session handed to the hook has had release issued on it, and without any
\* session no release was ever called.
C10_UnmountReleasesAll ==
    ~mounted /\ Quiescent =>
        /\ \A s \in 1..Len(sessions) : ReleaseIssued(s)
        /\ sessions = <<>> => rels = <<>>

----------------------------------------------------------------------------
(* Properties of parseYoloOutput *)

\* The call of parseYoloOutput in hand has run.
Parsed == parse.pc = "returned"

\* What the raw output of the call says, read off the buffer by its layout:
\* element r * numPredictions + i is feature row r of anchor i.
Rank == Len(parse.outputShape)
Anchors == parse.outputShape[Rank]
Feature(r, i) == parse.outputData[r * Anchors + i + 1]
ClassScores(i) == {Feature(NUM_BBOX_COORDS + c, i) : c \in 0..(NUM_CLASSES - 1)}
TopScore(i) == CHOOSE s \in ClassScores(i) : \A other \in ClassScores(i) : s >= other
TopClass(i) ==
    CHOOSE c \in 0..(NUM_CLASSES - 1) :
        /\ Feature(NUM_BBOX_COORDS + c, i) = TopScore(i)
        /\ \A d \in 0..(c - 1) : Feature(NUM_BBOX_COORDS + d, i) # TopScore(i)
PassesBoxFilter(i) ==
    /\ Feature(2, i) > 0
    /\ Feature(3, i) > 0
    /\ 0 <= Feature(0, i) /\ Feature(0, i) <= IMAGE_SIZE
    /\ 0 <= Feature(1, i) /\ Feature(1, i) <= IMAGE_SIZE
Emits(i, threshold) == PassesBoxFilter(i) /\ TopScore(i) >= threshold

\* The anchors for which a detection is due, in increasing order.
EmittedAnchors(threshold) ==
    SelectSeq([k \in 1..Anchors |-> k - 1], LAMBDA i : Emits(i, threshold))

\* The shape is one parseYoloOutput supports.
SupportedShape ==
    \/ Rank = 3 /\ parse.outputShape[2] = NumFeatures
    \/ Rank = 4 /\ parse.outputShape[3] = NumFeatures

\* C12: parseYoloOutput throws an unsupported-shape error and returns no
\* detections when the rank of the shape is neither 3 nor 4 or its feature
\* count (second axis of rank 3, third axis of rank 4) is not 4 + numClasses;
\* for every rank-3 or rank-4 shape with that feature count it returns.
C12_UnsupportedShapeFails ==
    Parsed =>
        IF SupportedShape
        THEN ~parse.outcome.threw
        ELSE /\ parse.outcome.threw
             /\ parse.outcome.error \in {UnexpectedOutputShape, ExpectedFeatures}
             /\ parse.outcome.value = <<>>

\* A rank-4 output with one feature row too many, whose anchor would have
\* been a detection, is refused.
C12_Witness ==
    /\ Parsed
    /\ Rank = 4 /\ parse.outputShape[3] = NumFeatures + 1 /\ Anchors >= 1
    /\ Emits(0, parse.confidenceThreshold)
    /\ parse.outcome.threw

RECURSIVE IsSubsequence(_, _)
IsSubsequence(a, b) ==
    IF a = <<>> THEN TRUE
    ELSE IF b = <<>> THEN FALSE
    ELSE IF Head(a) = Head(b) THEN IsSubsequence(Tail(a), Tail(b))
    ELSE IsSubsequence(a, Tail(b))

\* C16: for the same raw output and thresholds t1 <= t2, the detections
\* returned at t2 are a subsequence of those returned at t1, so there are no
\* more of them.
C16_ThresholdMonotone ==
    (Parsed /\ SupportedShape) =>
        \A t \in Thresholds :
            LET other == parseYoloOutput(parse.outputData, parse.outputShape, t).value
                mine == parse.outcome.value
            IN  /\ t <= parse.confidenceThreshold =>
                      IsSubsequence(mine, other) /\ Len(mine) <= Len(other)
                /\ t >= parse.confidenceThreshold =>
                      IsSubsequence(other, mine) /\ Len(other) <= Len(mine)

\* A raw output of which a lower threshold returns two detections and the
\* threshold of the call one.
C16_Witness ==
    /\ Parsed /\ SupportedShape
    /\ Len(parse.outcome.value) = 1
    /\ \E t \in Thresholds :
          /\ t < parse.confidenceThreshold
          /\ Len(parseYoloOutput(parse.outputData, parse.outputShape, t).value) = 2

----------------------------------------------------------------------------
(* Properties of runInference *)

\* The buffer of the frame fills the input shape the session declares:
\* channels x height x width of [batch, channels, height, width].
FillsDeclaredShape ==
    frame.tensorLength =
        modelSession.inputShape[2] * modelSession.inputShape[3]
            * modelSession.inputShape[4]

\* C11: a frame whose buffer length differs from channels x height x width of
\* the declared input shape is rejected with the invalid-tensor error, and
\* session.run is not invoked for it.
C11_WrongLengthRejectedBeforeRun ==
    (frame.pc # "idle" /\ ~FillsDeclaredShape) =>
        /\ frame.pc = "settled"
        /\ frame.outcome.threw
        /\ frame.outcome.error = InvalidInputTensorSize
        /\ ~frame.runInvoked

\* The ways one frame fails without ending the pipeline.
PerFrameFailures ==
    {InvalidInputTensorSize, OutputTensorNotFound, UnexpectedOutputShape,
     ExpectedFeatures}

\* session.run resolved with the named output, of a supported shape.
ValidOutput(results) ==
    /\ modelSession.outputName \in DOMAIN results
    /\ LET dims == results[modelSession.outputName].dims
       IN  \/ Len(dims) = 3 /\ dims[2] = NumFeatures
           \/ Len(dims) = 4 /\ dims[3] = NumFeatures

\* C13: after a call that failed on its frame, the session is unreleased, and
\* a call with a valid input fails only if session.run was invoked and did not
\* resolve with a valid output.
C13_FailedFrameLeavesSessionUsable ==
    (frame.earlier \in PerFrameFailures /\ FillsDeclaredShape) =>
        /\ ~modelSession.released
        /\ (frame.pc = "settled" /\ frame.outcome.threw) =>
              frame.runInvoked /\ ~ValidOutput(frame.results)

\* C17: with maxDetections N in the configuration runInference returns at most
\* N detections; without it, every detection parseYoloOutput returned.
C17_AtMostMaxDetections ==
    (frame.pc = "settled" /\ ~frame.outcome.threw) =>
        LET detections == frame.outcome.value.detections
            output == frame.results[modelSession.outputName]
            threshold == Spread(DEFAULT_CONFIG, frame.config).confidenceThreshold
        IN  IF "maxDetections" \in DOMAIN frame.config
            THEN Len(detections) <= frame.config.maxDetections
            ELSE detections = parseYoloOutput(output.data, output.dims, threshold).value

----------------------------------------------------------------------------
(* Properties of applyNMS *)

\* The call of applyNMS in hand has run.
Suppressed == nms.pc = "returned"

OfClass(detections, c) == SelectSeq(detections, LAMBDA d : d.classId = c)
ClassIds == {nms.detections[i].classId : i \in DOMAIN nms.detections}
Members(seq) == {seq[i] : i \in DOMAIN seq}
IouThreshold == Spread(DEFAULT_NMS_CONFIG, nms.config).iouThreshold

\* C18: the detections of class c in the result of applyNMS are the result of
\* applyNMS on the class-c detections of the input alone, for every class c.
C18_ClassesAreIndependent ==
    Suppressed =>
        \A c \in ClassIds :
            OfClass(nms.result, c) = applyNMS(OfClass(nms.detections, c), nms.config)

\* Two detections of the same geometry and different classes both survive,
\* while a third is suppressed within its class.
C18_Witness ==
    /\ Suppressed
    /\ Len(nms.result) < Len(nms.detections)
    /\ \E i, j \in DOMAIN nms.result :
          /\ nms.result[i].classId # nms.result[j].classId
          /\ nms.result[i].cx = nms.result[j].cx
          /\ Above(calculateIoU(nms.result[i], nms.result[j]), IouThreshold)

\* The boxes of class c, ranked by confidence.
Ranked(c) ==
    sortByConfidenceDesc(
        OfClass([i \in DOMAIN nms.detections |->
                    convertToCornerCoords(nms.detections[i])], c))

\* The box at rank j is due to be kept: its IoU with every box that is ranked
\* before it and due to be kept is at most the threshold.
RECURSIVE DueAt(_, _)
DueAt(ranked, j) ==
    \A i \in 1..(j - 1) :
        DueAt(ranked, i) => AtMost(calculateIoU(ranked[i], ranked[j]), IouThreshold)

Due(c) ==
    LET ranked == Ranked(c)
        ranks == SelectSeq([k \in 1..Len(ranked) |-> k], LAMBDA j : DueAt(ranked, j))
    IN  [k \in 1..Len(ranks) |-> ranked[ranks[k]]]

\* C19: within a class applyNMS drops a detection exactly when its IoU with a
\* kept detection of the class ranked before it by confidence is strictly
\* above the threshold; a detection whose IoU with every kept detection is at
\* most the threshold, or equal to it, is kept.
C19_DroppedOnlyAboveThreshold ==
    Suppressed => \A c \in ClassIds : OfClass(nms.result, c) = Due(c)

\* A class of three boxes: one is dropped, and one is kept whose IoU with a
\* kept box ranked before it equals the threshold.
C19_Witness ==
    /\ Suppressed
    /\ \E c \in ClassIds :
          /\ Len(OfClass(nms.detections, c)) = 3
          /\ Len(OfClass(nms.result, c)) = 2
          /\ LET kept == OfClass(nms.result, c)
                 overlap == calculateIoU(kept[1], kept[2])
             IN  AtMost(overlap, IouThreshold) /\ AtMost(IouThreshold, overlap)

\* C20: applyNMS with the same threshold on the result of applyNMS returns the
\* same set of detections.
C20_NmsIdempotent ==
    Suppressed => Members(applyNMS(nms.result, nms.config)) = Members(nms.result)

\* A result of two boxes of one class, left of an input from which a box of
\* that class was suppressed.
C20_Witness ==
    /\ Suppressed
    /\ Len(nms.result) < Len(nms.detections)
    /\ \E i, j \in DOMAIN nms.result :
          i # j /\ nms.result[i].classId = nms.result[j].classId

\* C21: the list applyNMS returns is in non-increasing order of confidence,
\* and holds the kept detections of every class of the input.
C21_SortedByConfidence ==
    Suppressed =>
        /\ \A i, j \in DOMAIN nms.result :
              i < j => nms.result[i].confidence >= nms.result[j].confidence
        /\ \A c \in ClassIds : Members(Due(c)) \subseteq Members(nms.result)
        /\ \A i \in DOMAIN nms.result : nms.result[i].classId \in ClassIds

\* A result of two classes in which a detection of the higher class stands
\* before a less confident detection of the lower class.
C21_Witness ==
    /\ Suppressed
    /\ \E i, j \in DOMAIN nms.result :
          /\ i < j
          /\ nms.result[i].classId > nms.result[j].classId
          /\ nms.result[i].confidence > nms.result[j].confidence

\* The fields a RawDetection has.
RawFields == {"classId", "confidence", "cx", "cy", "width", "height"}

\* C29: no two detections of one class in the result of applyNMS have an IoU
\* above the threshold, and every detection of the result is a detection of
\* the input with its classId, confidence, cx, cy, width and height, and with
\* corners half a width and half a height from the centre.
C29_ResultIsCompatibleSubset ==
    Suppressed =>
        /\ \A i, j \in DOMAIN nms.result :
              (i # j /\ nms.result[i].classId = nms.result[j].classId) =>
                  AtMost(calculateIoU(nms.result[i], nms.result[j]), IouThreshold)
        /\ \A i \in DOMAIN nms.result :
              LET d == nms.result[i]
              IN  /\ \E k \in DOMAIN nms.detections :
                        \A f \in RawFields : d[f] = nms.detections[k][f]
                  /\ 2 * d.x1 = 2 * d.cx - d.width
                  /\ 2 * d.y1 = 2 * d.cy - d.height
                  /\ 2 * d.x2 = 2 * d.cx + d.width
                  /\ 2 * d.y2 = 2 * d.cy + d.height

\* A result that keeps two boxes of one class which overlap, and drops one.
C29_Witness ==
    /\ Suppressed
    /\ Len(nms.result) < Len(nms.detections)
    /\ \E i, j \in DOMAIN nms.result :
          /\ i # j /\ nms.result[i].classId = nms.result[j].classId
          /\ Above(calculateIoU(nms.result[i], nms.result[j]), Fraction(0, 1))

----------------------------------------------------------------------------
(* Properties of calculateIoU *)

IouReturned == iou.pc = "returned"

Area(b) == (b.x2 - b.x1) * (b.y2 - b.y1)

\* The two boxes share no interior point.
Apart(a, b) ==
    \/ a.x2 <= b.x1 \/ b.x2 <= a.x1
    \/ a.y2 <= b.y1 \/ b.y2 <= a.y1

\* The area the two boxes cover together, counted cell by cell.
Covered(a, b) ==
    Cardinality({c \in (0..(MaxCoord - 1)) \X (0..(MaxCoord - 1)) :
                    \/ a.x1 <= c[1] /\ c[1] < a.x2 /\ a.y1 <= c[2] /\ c[2] < a.y2
                    \/ b.x1 <= c[1] /\ c[1] < b.x2 /\ b.y1 <= c[2] /\ c[2] < b.y2})

SameValue(a, b) == a.num * b.den = b.num * a.den

\* C22: for corner boxes a and b of positive area calculateIoU(a, b) is
\* calculateIoU(b, a), calculateIoU(a, a) is 1, and boxes that do not overlap
\* have IoU 0; when the area of the union is zero the result is 0.
C22_IouSymmetricReflexiveDisjoint ==
    IouReturned =>
        /\ (Area(iou.boxA) > 0 /\ Area(iou.boxB) > 0) =>
              /\ SameValue(iou.result, calculateIoU(iou.boxB, iou.boxA))
              /\ iou.boxA = iou.boxB => SameValue(iou.result, Fraction(1, 1))
              /\ Apart(iou.boxA, iou.boxB) => SameValue(iou.result, Fraction(0, 1))
        /\ Covered(iou.boxA, iou.boxB) = 0 => iou.result = Fraction(0, 1)

\* Two boxes of different positive areas that overlap in part.
C22_Witness ==
    /\ IouReturned
    /\ Area(iou.boxA) > 0 /\ Area(iou.boxB) > Area(iou.boxA)
    /\ ~Apart(iou.boxA, iou.boxB)
    /\ Above(iou.result, Fraction(0, 1))
    /\ Above(Fraction(1, 1), iou.result)
    /\ SameValue(calculateIoU(iou.boxB, iou.boxB), Fraction(1, 1))

----------------------------------------------------------------------------
(* Properties of the postprocessing *)

Transformed == post.pc = "returned" /\ post.fn = "transformCoordinates"
Enriched == post.pc = "returned" /\ post.fn = "enrichWithClassNames"
PostProcessed == post.pc = "returned" /\ post.fn = "postProcessDetections"

\* a + b = c for fractions.
SumIs(a, b, c) == (a.num * b.den + b.num * a.den) * c.den = c.num * a.den * b.den

\* C23: for a detection with x1 <= x2 and y1 <= y2 and a geometry with a
\* positive scale, transformCoordinates returns a box with
\* 0 <= x1 <= x2 <= originalWidth and 0 <= y1 <= y2 <= originalHeight whose
\* width and height are x2 - x1 and y2 - y1 of the clamped corners, and are
\* not negative.
C23_TransformedBoxInsideFrame ==
    Transformed =>
        LET r == post.result
            m == post.metadata
        IN  /\ AtMost(Whole(0), r.x1) /\ AtMost(r.x1, r.x2)
            /\ AtMost(r.x2, m.originalWidth)
            /\ AtMost(Whole(0), r.y1) /\ AtMost(r.y1, r.y2)
            /\ AtMost(r.y2, m.originalHeight)
            /\ SumIs(r.x1, r.width, r.x2) /\ SumIs(r.y1, r.height, r.y2)
            /\ AtMost(Whole(0), r.width) /\ AtMost(Whole(0), r.height)

\* A box that starts left of the frame and ends beyond its right edge is cut
\* to the frame's width, while its height lies strictly inside the frame.
C23_Witness ==
    /\ Transformed
    /\ Above(Whole(0), post.detections[1].x1)
    /\ Above(Quotient(post.detections[1].x2, post.metadata.scale),
             post.metadata.originalWidth)
    /\ SameValue(post.result.x1, Whole(0))
    /\ SameValue(post.result.x2, post.metadata.originalWidth)
    /\ Above(post.result.height, Whole(0))
    /\ Above(post.metadata.originalHeight, post.result.y2)

\* The allow-list postProcessDetections was given: empty when there is none.
AllowList ==
    IF "allowedClassIds" \in DOMAIN post.config THEN post.config.allowedClassIds
    ELSE <<>>

\* The positions of the input detections that are to be returned.
Wanted ==
    {i \in DOMAIN post.detections :
        \/ Len(AllowList) = 0
        \/ \E k \in DOMAIN AllowList : AllowList[k] = post.detections[i].classId}

\* The position in the input of the k-th detection that is to be returned.
WantedAt(k) ==
    CHOOSE i \in Wanted : Cardinality({j \in Wanted : j <= i}) = k

\* C25: with a non-empty allow-list postProcessDetections returns exactly the
\* input detections whose classId is in the list, with an empty or absent
\* list it returns all of them, and the output keeps the input's order.
C25_AllowListFilters ==
    PostProcessed =>
        /\ Len(post.result) = Cardinality(Wanted)
        /\ \A k \in DOMAIN post.result :
              LET d == post.detections[WantedAt(k)]
                  r == post.result[k]
              IN  /\ r.classId = d.classId
                  /\ r.confidence = d.confidence
                  /\ <<r.x1, r.y1, r.x2, r.y2>> =
                        LET t == transformCoordinates(d, post.metadata)
                        IN  <<t.x1, t.y1, t.x2, t.y2>>

\* An allow-list of two classes keeps the second of two different detections
\* and drops the first.
C25_Witness ==
    /\ PostProcessed
    /\ Len(AllowList) = 2
    /\ Len(post.detections) = 2 /\ Len(post.result) = 1
    /\ Wanted = {2}
    /\ post.result[1].confidence # post.detections[1].confidence
    /\ post.result[1].classId = 0

\* The placeholder names of the class identifiers of the model.
PlaceholderNames ==
    [c \in PostClassIds |->
        CASE c = 0 -> "class_0" [] c = 1 -> "class_1" [] c = 7 -> "class_7"]

\* C26: enrichWithClassNames returns one detection per input detection, in
\* order, whose className is the name the class map has for the classId, or
\* the placeholder when the map has none, and whose other fields are the
\* input's; this for every classId and every class map, the empty one too.
C26_EveryDetectionNamed ==
    Enriched =>
        /\ Len(post.result) = Len(post.detections)
        /\ \A i \in DOMAIN post.result :
              LET d == post.detections[i]
                  r == post.result[i]
              IN  /\ DOMAIN r = DOMAIN d \cup {"className"}
                  /\ \A f \in DOMAIN d : r[f] = d[f]
                  /\ r.className =
                        IF d.classId \in DOMAIN post.classMap
                        THEN post.classMap[d.classId]
                        ELSE PlaceholderNames[d.classId]

\* A class map that names class 0 with the empty string: one detection gets
\* that name, the other a placeholder.
C26_Witness ==
    /\ Enriched
    /\ Len(post.result) = 2
    /\ post.result[1].classId = 0 /\ post.result[1].className = ""
    /\ post.result[2].className = "class_7"

----------------------------------------------------------------------------
(* Properties of preprocessImage *)

Preprocessed == pre.pc \in {"settled", "mapped"}
MappedBack == pre.pc = "mapped"

\* a * b = c for fractions.
ProductIs(a, b, c) == a.num * b.num * c.den = c.num * a.den * b.den

\* C24: the geometry preprocessImage returns has scale = modelWidth /
\* max(width, height) > 0, padX = max(width, height) - width >= 0 and padY =
\* max(width, height) - height >= 0; the padding being on the right and at the
\* bottom only, a box inside the frame lies in model space at its corners
\* times scale, and transformCoordinates maps it back to its corners, width
\* and height in the frame.
C24_GeometryRoundTrip ==
    MappedBack =>
        LET geometry == pre.outcome.value
            maxSide == Higher(pre.video.videoWidth, pre.video.videoHeight)
            inModel == post.detections[1]
            back == post.result
        IN  /\ SameValue(geometry.scale, Fraction(pre.modelWidth, maxSide))
            /\ Above(geometry.scale, Whole(0))
            /\ geometry.padX = maxSide - pre.video.videoWidth /\ geometry.padX >= 0
            /\ geometry.padY = maxSide - pre.video.videoHeight /\ geometry.padY >= 0
            /\ ProductIs(Whole(pre.box.x1), geometry.scale, inModel.x1)
            /\ ProductIs(Whole(pre.box.y1), geometry.scale, inModel.y1)
            /\ ProductIs(Whole(pre.box.x2), geometry.scale, inModel.x2)
            /\ ProductIs(Whole(pre.box.y2), geometry.scale, inModel.y2)
            /\ SameValue(back.x1, Whole(pre.box.x1))
            /\ SameValue(back.y1, Whole(pre.box.y1))
            /\ SameValue(back.x2, Whole(pre.box.x2))
            /\ SameValue(back.y2, Whole(pre.box.y2))
            /\ SameValue(back.width, Whole(pre.box.x2 - pre.box.x1))
            /\ SameValue(back.height, Whole(pre.box.y2 - pre.box.y1))

\* A frame wider than high, padded at the bottom and scaled by more than 1: a
\* box that reaches the frame's lower right corner is mapped back.
C24_Witness ==
    /\ MappedBack
    /\ pre.outcome.value.padY > 0 /\ pre.outcome.value.padX = 0
    /\ Above(pre.outcome.value.scale, Whole(1))
    /\ 0 < pre.box.x1 /\ pre.box.x1 < pre.box.x2 /\ 0 < pre.box.y1
    /\ pre.box.x2 = pre.video.videoWidth /\ pre.box.y2 = pre.video.videoHeight
    /\ SameValue(post.result.x2, Whole(pre.video.videoWidth))

\* How many times delete() was called on the Mat.
Deletions(mat) == Cardinality({i \in DOMAIN pre.deleted : pre.deleted[i] = mat})

\* No element of the sequence occurs twice.
NoRepeats(seq) == \A i, j \in DOMAIN seq : seq[i] = seq[j] => i = j

\* C28: when preprocessImage has returned or thrown, every Mat it allocated
\* has been deleted exactly once and nothing else was deleted; when the canvas
\* gives no 2d context the call fails with no Mat allocated; no step runs
\* twice.
C28_EveryMatDeletedOnce ==
    Preprocessed =>
        /\ NoRepeats(pre.allocated)
        /\ \A mat \in SetOf(pre.allocated) : Deletions(mat) = 1
        /\ SetOf(pre.deleted) \subseteq SetOf(pre.allocated)
        /\ ~pre.outcome.threw =>
              SetOf(pre.allocated) =
                  {"mat", "matC3", "matPad", "matResized", "inputBlob"}
        /\ (pre.ran # <<>> /\ pre.ran[Len(pre.ran)] = "getContext") =>
              /\ pre.outcome = Throws(FailedToGetContext)
              /\ pre.allocated = <<>>
        /\ NoRepeats(pre.ran)

\* resize throws after four Mats were allocated: the four are deleted.
C28_Witness ==
    /\ Preprocessed
    /\ pre.outcome.threw
    /\ pre.ran # <<>> /\ pre.ran[Len(pre.ran)] = "resize"
    /\ Len(pre.allocated) = 4 /\ Len(pre.deleted) = 4

----------------------------------------------------------------------------
(* Properties of getOpenCV *)

\* C27: whatever the interleaving of the getOpenCV calls, the initialization
\* is set up at most once, and once the runtime has initialized no call is
\* left waiting for a callback that will not be called.
C27_OpenCvInitializedOnce ==
    /\ Len(cv.promises) <= 1
    /\ cv.runtime = "initialized" =>
          \A c \in DOMAIN cv.calls :
              cv.calls[c].pc = "returned" /\ cv.calls[c].promise # NoPromise =>
                  cv.promises[cv.calls[c].promise] # "await callback"

----------------------------------------------------------------------------
(* The state of useModelLoader between operations *)

\* No loadModel, switchModel or unloadModel call of the hook is in flight.
NoOperationInFlight == \A o \in 1..Len(ops) : ops[o].pc = "done"

\* C30: whenever no operation of the mounted hook is in flight, the session
\* in sessionRef and the session in the state are the same, loadingState is
\* 'loaded' exactly when there is a session, 'error' exactly when an error is
\* recorded, and 'idle' otherwise.
C30_RefAndStateAgree ==
    mounted /\ NoOperationInFlight =>
        /\ state.session = sessionRef
        /\ state.loadingState = "loaded" <=> state.session # NullModelSession
        /\ state.loadingState = "error" <=> state.error # NoModelError
        /\ state.loadingState \in {"loaded", "error", "idle"}

\* A load gave the hook a session and a later load failed: the hook holds no
\* session and shows the error.
C30_Witness ==
    /\ mounted /\ NoOperationInFlight
    /\ Len(ops) = 2 /\ Len(sessions) = 1
    /\ state.loadingState = "error"
    /\ sessionRef = NullModelSession

====
